---- MODULE Spec2Model ----
(***************************************************************************)
(* Host-side selection and control engine of NHP_Synth.                    *)
(*                                                                         *)
(* The model follows src/host/synth_control/encoder_manager.py (buttons,   *)
(* selection timeout, rotation), src/host/utils/command_queue.py (external *)
(* commands) and src/host/synth_control/synth_interface.py (the device     *)
(* setters and their range checks), driven by the control loop of          *)
(* src/host/main.py.                                                       *)
(*                                                                         *)
(* Units.  Amplitudes are percent, phases degrees, both integers as the    *)
(* encoder steps are.  Frequencies are kept in tenths of a hertz, the      *)
(* encoder step (delta * 0.1), so 20 Hz is 200 and 8000 Hz is 80000;       *)
(* round(float(x), 2) leaves every such value as it is.  Time is counted   *)
(* in abstract units; hold_threshold and selection_timeout are parameters  *)
(* of the handlers and are given small values in these units.              *)
(***************************************************************************)
EXTENDS Integers, Sequences, FiniteSets, TLC

\* ------------------------------------------------------------------ bounds
MaxSynths == 3
MaxTime == 3
MaxPos == 1
PosStep == 5
MaxRotations == 1
MaxCommands == 1
MaxQueue == 2
MaxEmits == 2
MaxPairSynths == 2
MaxEnc == 2
MaxReads == 3
hold_threshold == 1
selection_timeout == 2

\* ------------------------------------------------------- program constants
AMP_MIN == 0
AMP_MAX == 100
PHASE_MIN == -360
PHASE_MAX == 360
FREQ_MIN == 200
FREQ_DEV_MAX == 80000
FREQ_ENC_MAX == 700

\* The functions, in the order every handler walks them.
FuncOrder == <<"amplitude_a", "amplitude_b", "frequency", "phase", "harmonics">>

Funcs == {FuncOrder[k] : k \in 1..Len(FuncOrder)}

\* The functions the timeout sweep walks.
TimeoutFuncs == <<"amplitude_a", "amplitude_b", "phase", "harmonics">>

Channels == {"a", "b"}

VARIABLES
    num_synths,        \* number of enumerated synths
    present,           \* functions whose encoder and button exist
    DEFAULTS_LIST,     \* the per-synth defaults (a sequence of records)
    amplitude_a, amplitude_b, frequency_a, frequency_b, phase_a, phase_b,
    harmonics_a, harmonics_b,
    selection_mode, selection_time, active_synth, active_channel,
    button_pressed, button_press_time, was_held, block_release,
    last_positions,
    command_queue,     \* external commands not yet drained
    now,               \* time.time()
    pc,                \* position of the control loop
    running,           \* FALSE once an exception has left the control loop
    sent,              \* device commands written by the last handler call
    events,            \* what the last handler call did, per function
    button_level,      \* last sampled raw level per function (TRUE = pressed)
    press_start,       \* time of the sample that began the current press
    holds_in_press,    \* Hold actions during the current continuous press
    rot_left, cmd_left, \* rotations and external commands the run may still see
    t_end,             \* the time at which the run is cut off
    drained,           \* the commands the drain of this tick took from the queue
    device_faults,     \* TRUE when serial writes may fail during the run
    state_file,        \* the content of STATE_FILE on disk
    state_manager,     \* the SynthStateManager object
    system,            \* the arrays initialize_system builds from STATE_FILE
    emitter,           \* the locals of the emit_synth_state thread
    encoder_position,  \* the positions the rotation handler read last
    left_stale,        \* per function: the last button step took it out of "all"
                       \* mode while the target left over from before was not
                       \* synth 0, channel a
    encoder            \* an Encoder object and the hardware counter behind it

vars == <<num_synths, present, DEFAULTS_LIST,
          amplitude_a, amplitude_b, frequency_a, frequency_b, phase_a, phase_b,
          harmonics_a, harmonics_b,
          selection_mode, selection_time, active_synth, active_channel,
          button_pressed, button_press_time, was_held, block_release,
          last_positions, command_queue, now, pc, running, sent, events,
          button_level, press_start, holds_in_press, rot_left, cmd_left, t_end,
          drained, device_faults, state_file, state_manager, system, emitter,
          encoder_position, left_stale, encoder>>

Synths == 0..(num_synths - 1)

Min(a, b) == IF a < b THEN a ELSE b

Max(a, b) == IF a > b THEN a ELSE b

\* max(lo, min(hi, v))
Clamp(lo, hi, v) == Max(lo, Min(hi, v))

\* --------------------------------------------------------------- defaults
\* The hardcoded defaults table of SynthStateManager.load_defaults.
HardDefault(i) ==
    [amplitude_a |-> 96, amplitude_b |-> 50,
     frequency_a |-> 500, frequency_b |-> 500,
     phase_a |-> IF i = 0 THEN 0 ELSE IF i = 1 THEN 120 ELSE -120,
     phase_b |-> IF i = 0 THEN 0 ELSE IF i = 1 THEN 120 ELSE -120]

DefaultsChoices ==
    { <<HardDefault(0), HardDefault(1), HardDefault(2)>> }

\* Defaults files whose record of synth 0 holds a value outside the range
\* the device setter accepts: 150 % for amplitude_a, or 10 Hz for
\* frequency_a.  The file is read as it is, with no validation.
OutOfRangeDefaults ==
    { <<[HardDefault(0) EXCEPT !.amplitude_a = 150], HardDefault(1), HardDefault(2)>>,
      <<[HardDefault(0) EXCEPT !.frequency_a = 100], HardDefault(1), HardDefault(2)>> }

\* get_default_for_synth(idx, key)
get_default_for_synth(idx, key) ==
    IF idx < Len(DEFAULTS_LIST)
    THEN DEFAULTS_LIST[idx + 1][key]
    ELSE DEFAULTS_LIST[1][key]

\* ------------------------------------------------- the working state record
\* The handlers are written as functions from a record of the program state
\* to the record after the call; raised = TRUE means an exception is
\* propagating, and every later statement of the call is skipped.
Cur ==
    [amplitude_a |-> amplitude_a, amplitude_b |-> amplitude_b,
     frequency_a |-> frequency_a, frequency_b |-> frequency_b,
     phase_a |-> phase_a, phase_b |-> phase_b,
     harmonics_a |-> harmonics_a, harmonics_b |-> harmonics_b,
     selection_mode |-> selection_mode, selection_time |-> selection_time,
     active_synth |-> active_synth, active_channel |-> active_channel,
     button_pressed |-> button_pressed, button_press_time |-> button_press_time,
     was_held |-> was_held, block_release |-> block_release,
     last_positions |-> last_positions,
     writable |-> Synths,
     sent |-> <<>>, events |-> {}, raised |-> FALSE]

\* The state a handler is called on when the serial ports of the synths in
\* writable accept writes for the length of the call.
CurWith(writable) == [Cur EXCEPT !.writable = writable]

\* The sets of synths whose serial port may accept writes during one call.
Writables == IF device_faults THEN SUBSET Synths ELSE {Synths}

Commit(s) ==
    /\ amplitude_a' = s.amplitude_a
    /\ amplitude_b' = s.amplitude_b
    /\ frequency_a' = s.frequency_a
    /\ frequency_b' = s.frequency_b
    /\ phase_a' = s.phase_a
    /\ phase_b' = s.phase_b
    /\ harmonics_a' = s.harmonics_a
    /\ harmonics_b' = s.harmonics_b
    /\ selection_mode' = s.selection_mode
    /\ selection_time' = s.selection_time
    /\ active_synth' = s.active_synth
    /\ active_channel' = s.active_channel
    /\ button_pressed' = s.button_pressed
    /\ button_press_time' = s.button_press_time
    /\ was_held' = s.was_held
    /\ block_release' = s.block_release
    /\ last_positions' = s.last_positions
    /\ sent' = s.sent
    /\ events' = s.events
    /\ running' = ~s.raised

\* --------------------------------------------------- SynthInterface setters
\* Each setter validates its arguments, raises ValueError on a bad one and
\* otherwise hands one command line to send_command.
ChannelOk(channel) == channel \in {"a", "b", "A", "B"}

\* send_command: the line is written when the port is open and the write
\* succeeds; otherwise the failure is logged and False is returned, which no
\* caller looks at.
send_command(s, i, line) ==
    IF i \in s.writable THEN [s EXCEPT !.sent = Append(@, line)]
    ELSE [s EXCEPT !.events = @ \cup {<<"device", "Error">>}]

Lower(channel) == IF channel = "A" THEN "a" ELSE IF channel = "B" THEN "b" ELSE channel

\* set_amplitude without its range check.
set_amplitude_unchecked(s, i, channel, amplitude) ==
    IF s.raised THEN s
    ELSE IF ~ChannelOk(channel) THEN [s EXCEPT !.raised = TRUE]
    ELSE send_command(s, i, <<i, "wa", Lower(channel), amplitude, 0, 0>>)

set_amplitude(s, i, channel, amplitude) ==
    IF s.raised THEN s
    ELSE IF ~ChannelOk(channel) THEN [s EXCEPT !.raised = TRUE]
    ELSE IF ~(AMP_MIN <= amplitude /\ amplitude <= AMP_MAX) THEN [s EXCEPT !.raised = TRUE]
    ELSE send_command(s, i, <<i, "wa", Lower(channel), amplitude, 0, 0>>)

set_frequency(s, i, channel, frequency) ==
    IF s.raised THEN s
    ELSE IF ~ChannelOk(channel) THEN [s EXCEPT !.raised = TRUE]
    ELSE IF ~(FREQ_MIN <= frequency /\ frequency <= FREQ_DEV_MAX) THEN [s EXCEPT !.raised = TRUE]
    ELSE send_command(s, i, <<i, "wf", Lower(channel), frequency, 0, 0>>)

set_phase(s, i, channel, phase) ==
    IF s.raised THEN s
    ELSE IF ~ChannelOk(channel) THEN [s EXCEPT !.raised = TRUE]
    ELSE IF ~(PHASE_MIN <= phase /\ phase <= PHASE_MAX) THEN [s EXCEPT !.raised = TRUE]
    ELSE send_command(s, i, <<i, "wp", Lower(channel), phase, 0, 0>>)

clear_harmonics(s, i, channel) ==
    IF s.raised THEN s
    ELSE IF ~ChannelOk(channel) THEN [s EXCEPT !.raised = TRUE]
    ELSE send_command(s, i, <<i, "whcl", Lower(channel), 0, 0, 0>>)

\* add_harmonic without the check of the order.
add_harmonic_any_order(s, i, channel, order, percent, phase) ==
    IF s.raised THEN s
    ELSE IF ~ChannelOk(channel) THEN [s EXCEPT !.raised = TRUE]
    ELSE IF ~(AMP_MIN <= percent /\ percent <= AMP_MAX) THEN [s EXCEPT !.raised = TRUE]
    ELSE IF ~(PHASE_MIN <= phase /\ phase <= PHASE_MAX) THEN [s EXCEPT !.raised = TRUE]
    ELSE send_command(s, i, <<i, "wh", Lower(channel), percent, order, phase>>)

\* add_harmonic(channel, order, percent, phase)
add_harmonic(s, i, channel, order, percent, phase) ==
    IF s.raised THEN s
    ELSE IF ~ChannelOk(channel) THEN [s EXCEPT !.raised = TRUE]
    ELSE IF order < 3 \/ order % 2 = 0 THEN [s EXCEPT !.raised = TRUE]
    ELSE IF ~(AMP_MIN <= percent /\ percent <= AMP_MAX) THEN [s EXCEPT !.raised = TRUE]
    ELSE IF ~(PHASE_MIN <= phase /\ phase <= PHASE_MAX) THEN [s EXCEPT !.raised = TRUE]
    ELSE send_command(s, i, <<i, "wh", Lower(channel), percent, order, phase>>)

\* A plain assignment, skipped when an exception is propagating.
Put(s, field, i, v) ==
    IF s.raised THEN s ELSE [s EXCEPT ![field][i] = v]

\* ------------------------------------------ EncoderManager.handle_encoder_buttons
RECURSIVE HoldAmplitudeAll(_, _, _, _)
\* for i in range(num_synths): amplitude_x[i] = default; synths[i].set_amplitude(x, ...)
HoldAmplitudeAll(s, key, channel, i) ==
    IF i >= num_synths \/ s.raised THEN s
    ELSE LET d == get_default_for_synth(i, key)
         IN HoldAmplitudeAll(set_amplitude(Put(s, key, i, d), i, channel, d), key, channel, i + 1)

\* HoldAmplitude resetting every synth whatever the selection mode.
HoldAmplitudeEverySynth(s, func, channel) ==
    HoldAmplitudeAll(s, func, channel, 0)

\* The hold reset of amplitude_a (channel a) or amplitude_b (channel b).
HoldAmplitude(s, func, channel) ==
    IF s.selection_mode[func] = "all"
    THEN HoldAmplitudeAll(s, func, channel, 0)
    ELSE LET synth_idx == s.active_synth[func]
             d == get_default_for_synth(synth_idx, func)
         IN set_amplitude(Put(s, func, synth_idx, d), synth_idx, channel, d)

RECURSIVE HoldFrequency(_, _)
\* The hold reset of frequency: both channels of every synth.
HoldFrequency(s, i) ==
    IF i >= num_synths \/ s.raised THEN s
    ELSE LET da == get_default_for_synth(i, "frequency_a")
             db == get_default_for_synth(i, "frequency_b")
             s1 == Put(Put(s, "frequency_a", i, da), "frequency_b", i, db)
         IN HoldFrequency(set_frequency(set_frequency(s1, i, "a", da), i, "b", db), i + 1)

RECURSIVE HoldPhaseAll(_, _)
HoldPhaseAll(s, i) ==
    IF i >= num_synths \/ s.raised THEN s
    ELSE LET da == get_default_for_synth(i, "phase_a")
             db == get_default_for_synth(i, "phase_b")
             s1 == Put(Put(s, "phase_a", i, da), "phase_b", i, db)
         IN HoldPhaseAll(set_phase(set_phase(s1, i, "a", da), i, "b", db), i + 1)

\* The hold reset of phase.
HoldPhase(s) ==
    IF s.selection_mode["phase"] = "all"
    THEN HoldPhaseAll(s, 0)
    ELSE LET synth_idx == s.active_synth["phase"]
             key == IF s.active_channel["phase"] = "a" THEN "phase_a" ELSE "phase_b"
             d == get_default_for_synth(synth_idx, key)
         IN set_phase(Put(s, key, synth_idx, d), synth_idx, s.active_channel["phase"], d)

RECURSIVE HoldHarmonicsAll(_, _)
HoldHarmonicsAll(s, i) ==
    IF i >= num_synths \/ s.raised THEN s
    ELSE LET s1 == Put(Put(s, "harmonics_a", i, <<>>), "harmonics_b", i, <<>>)
         IN HoldHarmonicsAll(clear_harmonics(clear_harmonics(s1, i, "a"), i, "b"), i + 1)

\* The hold reset of harmonics: the targeted lists are emptied.
HoldHarmonics(s) ==
    IF s.selection_mode["harmonics"] = "all"
    THEN HoldHarmonicsAll(s, 0)
    ELSE LET synth_idx == s.active_synth["harmonics"]
             key == IF s.active_channel["harmonics"] = "a" THEN "harmonics_a" ELSE "harmonics_b"
         IN clear_harmonics(Put(s, key, synth_idx, <<>>), synth_idx, s.active_channel["harmonics"])

\* The branch taken when the button is still down and hold_duration has
\* reached hold_threshold.
HoldReset(s, func) ==
    LET s0 == [s EXCEPT !.button_pressed[func] = FALSE,
                        !.was_held[func] = TRUE,
                        !.block_release[func] = TRUE,
                        !.events = @ \cup {<<func, "Hold">>}]
    IN CASE func = "amplitude_a" -> HoldAmplitude(s0, func, "a")
         [] func = "amplitude_b" -> HoldAmplitude(s0, func, "b")
         [] func = "frequency" -> HoldFrequency(s0, 0)
         [] func = "phase" -> HoldPhase(s0)
         [] OTHER -> HoldHarmonics(s0)

\* CycleSynth stepping on from the last synth instead of returning to "all".
CycleSynthPastEnd(s, func) ==
    IF s.selection_mode[func] = "all"
    THEN [s EXCEPT !.selection_mode[func] = "individual",
                   !.selection_time[func] = now,
                   !.active_synth[func] = 0]
    ELSE [s EXCEPT !.active_synth[func] = @ + 1,
                   !.selection_time[func] = now]

\* Short press on amplitude_a / amplitude_b: all -> synth 0 -> ... -> all.
CycleSynth(s, func) ==
    IF s.selection_mode[func] = "all"
    THEN [s EXCEPT !.selection_mode[func] = "individual",
                   !.selection_time[func] = now,
                   !.active_synth[func] = 0]
    ELSE IF s.active_synth[func] < num_synths - 1
    THEN [s EXCEPT !.active_synth[func] = @ + 1,
                   !.selection_time[func] = now]
    ELSE [s EXCEPT !.selection_mode[func] = "all"]

\* CycleSynthChannel leaving the cycle after channel a of the last synth.
CycleSynthChannelShort(s, func) ==
    IF s.selection_mode[func] = "all"
    THEN [s EXCEPT !.selection_mode[func] = "individual",
                   !.selection_time[func] = now,
                   !.active_synth[func] = 0,
                   !.active_channel[func] = "a"]
    ELSE IF s.active_synth[func] >= num_synths - 1
    THEN [s EXCEPT !.selection_mode[func] = "all"]
    ELSE IF s.active_channel[func] = "a"
    THEN [s EXCEPT !.active_channel[func] = "b",
                   !.selection_time[func] = now]
    ELSE [s EXCEPT !.active_channel[func] = "a",
                   !.active_synth[func] = @ + 1,
                   !.selection_time[func] = now]

\* CycleSynthChannel resuming, on leaving "all", at the target left
\* selected before.
CycleSynthChannelResuming(s, func) ==
    IF s.selection_mode[func] = "all"
    THEN [s EXCEPT !.selection_mode[func] = "individual",
                   !.selection_time[func] = now]
    ELSE IF s.active_channel[func] = "a"
    THEN [s EXCEPT !.active_channel[func] = "b",
                   !.selection_time[func] = now]
    ELSE IF s.active_synth[func] < num_synths - 1
    THEN [s EXCEPT !.active_channel[func] = "a",
                   !.active_synth[func] = @ + 1,
                   !.selection_time[func] = now]
    ELSE [s EXCEPT !.selection_mode[func] = "all"]

\* Short press on phase / harmonics: all -> (0,a) -> (0,b) -> (1,a) ... -> all.
CycleSynthChannel(s, func) ==
    IF s.selection_mode[func] = "all"
    THEN [s EXCEPT !.selection_mode[func] = "individual",
                   !.selection_time[func] = now,
                   !.active_synth[func] = 0,
                   !.active_channel[func] = "a"]
    ELSE IF s.active_channel[func] = "a"
    THEN [s EXCEPT !.active_channel[func] = "b",
                   !.selection_time[func] = now]
    ELSE IF s.active_synth[func] < num_synths - 1
    THEN [s EXCEPT !.active_channel[func] = "a",
                   !.active_synth[func] = @ + 1,
                   !.selection_time[func] = now]
    ELSE [s EXCEPT !.selection_mode[func] = "all"]

\* Release without the special case that keeps frequency in "all" mode.
ReleaseCyclingFrequency(s, func) ==
    LET hold_duration == now - s.button_press_time[func]
        s0 == [s EXCEPT !.button_pressed[func] = FALSE]
    IN IF s.block_release[func]
       THEN [s0 EXCEPT !.block_release[func] = FALSE,
                       !.was_held[func] = FALSE,
                       !.events = @ \cup {<<func, "ReleaseAfterHold">>}]
       ELSE IF hold_duration < hold_threshold
       THEN LET s1 == [s0 EXCEPT !.events = @ \cup {<<func, "Press">>}]
            IN IF func \in {"amplitude_a", "amplitude_b", "frequency"} THEN CycleSynth(s1, func)
               ELSE CycleSynthChannel(s1, func)
       ELSE s0

\* Release without the block_release guard: the release that follows a hold
\* is treated like any other release.
ReleaseIgnoringBlock(s, func) ==
    LET hold_duration == now - s.button_press_time[func]
        s0 == [s EXCEPT !.button_pressed[func] = FALSE,
                        !.block_release[func] = FALSE]
    IN IF hold_duration < hold_threshold
       THEN LET s1 == [s0 EXCEPT !.events = @ \cup {<<func, "Press">>}]
            IN IF func = "frequency" THEN s1
               ELSE IF func \in {"amplitude_a", "amplitude_b"} THEN CycleSynth(s1, func)
               ELSE CycleSynthChannel(s1, func)
       ELSE s0

\* The branch taken when the button is seen released after a press.
Release(s, func) ==
    LET hold_duration == now - s.button_press_time[func]
        s0 == [s EXCEPT !.button_pressed[func] = FALSE]
    IN IF s.block_release[func]
       THEN [s0 EXCEPT !.block_release[func] = FALSE,
                       !.was_held[func] = FALSE,
                       !.events = @ \cup {<<func, "ReleaseAfterHold">>}]
       ELSE IF hold_duration < hold_threshold
       THEN LET s1 == [s0 EXCEPT !.events = @ \cup {<<func, "Press">>}]
            IN IF func = "frequency" THEN s1
               ELSE IF func \in {"amplitude_a", "amplitude_b"} THEN CycleSynth(s1, func)
               ELSE CycleSynthChannel(s1, func)
       ELSE s0

\* ButtonFunc without the "continue" for a missing encoder or button:
\* buttons[func] is None there, and reading its value raises.
ButtonFuncUnguarded(s, func, pressed) ==
    IF func \notin present THEN [s EXCEPT !.raised = TRUE]
    ELSE IF pressed /\ ~s.button_pressed[func]
    THEN [s EXCEPT !.button_pressed[func] = TRUE,
                   !.button_press_time[func] = now,
                   !.was_held[func] = FALSE]
    ELSE IF pressed /\ s.button_pressed[func]
    THEN IF now - s.button_press_time[func] >= hold_threshold
         THEN HoldReset(s, func)
         ELSE s
    ELSE IF ~pressed /\ s.button_pressed[func]
    THEN Release(s, func)
    ELSE s

\* One iteration of the loop over the functions; pressed is "not button.value".
ButtonFunc(s, func, pressed) ==
    IF func \notin present THEN s
    ELSE IF pressed /\ ~s.button_pressed[func]
    THEN [s EXCEPT !.button_pressed[func] = TRUE,
                   !.button_press_time[func] = now,
                   !.was_held[func] = FALSE]
    ELSE IF pressed /\ s.button_pressed[func]
    THEN IF now - s.button_press_time[func] >= hold_threshold
         THEN HoldReset(s, func)
         ELSE s
    ELSE IF ~pressed /\ s.button_pressed[func]
    THEN Release(s, func)
    ELSE s

RECURSIVE ButtonsFrom(_, _, _)
ButtonsFrom(s, k, pressed) ==
    IF k > Len(FuncOrder) \/ s.raised THEN s
    ELSE ButtonsFrom(ButtonFunc(s, FuncOrder[k], pressed[FuncOrder[k]]), k + 1, pressed)

\* handle_encoder_buttons, the whole call.
handle_encoder_buttons(s, pressed) == ButtonsFrom(s, 1, pressed)

\* ---------------------------------------- EncoderManager.check_selection_timeouts
RECURSIVE TimeoutsFromInclusive(_, _)
\* The sweep with >= in place of >.
TimeoutsFromInclusive(s, k) ==
    IF k > Len(TimeoutFuncs) THEN s
    ELSE LET func == TimeoutFuncs[k]
         IN IF s.selection_mode[func] = "individual"
               /\ now - s.selection_time[func] >= selection_timeout
            THEN TimeoutsFromInclusive([s EXCEPT !.selection_mode[func] = "all",
                                                 !.events = @ \cup {<<func, "Timeout">>}], k + 1)
            ELSE TimeoutsFromInclusive(s, k + 1)

RECURSIVE TimeoutsFromResettingAll(_, _)
\* The sweep reverting every function when one of them times out.
TimeoutsFromResettingAll(s, k) ==
    IF k > Len(TimeoutFuncs) THEN s
    ELSE LET func == TimeoutFuncs[k]
         IN IF s.selection_mode[func] = "individual"
               /\ now - s.selection_time[func] > selection_timeout
            THEN TimeoutsFromResettingAll(
                     [s EXCEPT !.selection_mode = [g \in Funcs |-> "all"],
                               !.events = @ \cup {<<func, "Timeout">>}], k + 1)
            ELSE TimeoutsFromResettingAll(s, k + 1)

RECURSIVE TimeoutsFrom(_, _)
TimeoutsFrom(s, k) ==
    IF k > Len(TimeoutFuncs) THEN s
    ELSE LET func == TimeoutFuncs[k]
         IN IF s.selection_mode[func] = "individual"
               /\ now - s.selection_time[func] > selection_timeout
            THEN TimeoutsFrom([s EXCEPT !.selection_mode[func] = "all",
                                        !.events = @ \cup {<<func, "Timeout">>}], k + 1)
            ELSE TimeoutsFrom(s, k + 1)

check_selection_timeouts(s) == TimeoutsFrom(s, 1)

\* ----------------------------------------- EncoderManager.handle_encoder_rotation
\* try: <device calls, then store writes> except ValueError: log.  When a
\* setter raised, the store writes after it never ran; the commands already
\* written stay written.
TryExcept(before, after) ==
    IF after.raised THEN [before EXCEPT !.sent = after.sent, !.events = after.events]
    ELSE after

RECURSIVE SetAmplitudes(_, _, _, _)
SetAmplitudes(s, channel, new_vals, i) ==
    IF i >= num_synths \/ s.raised THEN s
    ELSE SetAmplitudes(set_amplitude(s, i, channel, new_vals[i]), channel, new_vals, i + 1)

\* RotateAmplitude as the earlier revision had it: every target clamped on
\* its own, no all-or-nothing check.
RotateAmplitudeClamped(s, func, channel, delta_val) ==
    IF s.selection_mode[func] = "all"
    THEN LET new_vals == [i \in Synths |-> Clamp(AMP_MIN, AMP_MAX, s[func][i] + delta_val)]
             s1 == SetAmplitudes(s, channel, new_vals, 0)
         IN IF s1.raised THEN s1 ELSE [s1 EXCEPT ![func] = new_vals]
    ELSE LET synth_idx == s.active_synth[func]
             new_val == Clamp(AMP_MIN, AMP_MAX, s[func][synth_idx] + delta_val)
         IN TryExcept(s, Put(set_amplitude(s, synth_idx, channel, new_val), func, synth_idx, new_val))

\* RotateAmplitude rejecting an out-of-range candidate in individual mode
\* as it does in "all" mode, with no clamp.
RotateAmplitudeRejecting(s, func, channel, delta_val) ==
    IF s.selection_mode[func] = "all"
    THEN LET new_vals == [i \in Synths |-> s[func][i] + delta_val]
         IN IF \A i \in Synths : AMP_MIN <= new_vals[i] /\ new_vals[i] <= AMP_MAX
            THEN LET s1 == SetAmplitudes(s, channel, new_vals, 0)
                 IN TryExcept(s, IF s1.raised THEN s1 ELSE [s1 EXCEPT ![func] = new_vals])
            ELSE s
    ELSE LET synth_idx == s.active_synth[func]
             new_val == s[func][synth_idx] + delta_val
         IN TryExcept(s, Put(set_amplitude(s, synth_idx, channel, new_val), func, synth_idx, new_val))

\* RotateAmplitude storing, in "all" mode, the new value of a synth only
\* when the write to that synth succeeded.
RotateAmplitudeWriteThrough(s, func, channel, delta_val) ==
    IF s.selection_mode[func] = "all"
    THEN LET new_vals == [i \in Synths |-> s[func][i] + delta_val]
             kept == [i \in Synths |-> IF i \in s.writable THEN new_vals[i] ELSE s[func][i]]
         IN IF \A i \in Synths : AMP_MIN <= new_vals[i] /\ new_vals[i] <= AMP_MAX
            THEN LET s1 == SetAmplitudes(s, channel, new_vals, 0)
                 IN TryExcept(s, IF s1.raised THEN s1 ELSE [s1 EXCEPT ![func] = kept])
            ELSE s
    ELSE LET synth_idx == s.active_synth[func]
             new_val == Clamp(AMP_MIN, AMP_MAX, s[func][synth_idx] + delta_val)
         IN TryExcept(s, Put(set_amplitude(s, synth_idx, channel, new_val), func, synth_idx, new_val))

\* Rotation of amplitude_a (channel a) or amplitude_b (channel b).
RotateAmplitude(s, func, channel, delta_val) ==
    IF s.selection_mode[func] = "all"
    THEN LET new_vals == [i \in Synths |-> s[func][i] + delta_val]
         IN IF \A i \in Synths : AMP_MIN <= new_vals[i] /\ new_vals[i] <= AMP_MAX
            THEN LET s1 == SetAmplitudes(s, channel, new_vals, 0)
                 IN TryExcept(s, IF s1.raised THEN s1 ELSE [s1 EXCEPT ![func] = new_vals])
            ELSE s
    ELSE LET synth_idx == s.active_synth[func]
             new_val == Clamp(AMP_MIN, AMP_MAX, s[func][synth_idx] + delta_val)
         IN TryExcept(s, Put(set_amplitude(s, synth_idx, channel, new_val), func, synth_idx, new_val))

RECURSIVE SetFrequencies(_, _, _, _)
SetFrequencies(s, new_freq_a, new_freq_b, i) ==
    IF i >= num_synths \/ s.raised THEN s
    ELSE SetFrequencies(set_frequency(set_frequency(s, i, "a", new_freq_a[i]), i, "b", new_freq_b[i]),
                        new_freq_a, new_freq_b, i + 1)

\* RotateFrequency clamping to the device range (20 to 8000 Hz) instead of
\* the encoder range (20 to 70 Hz).
RotateFrequencyDeviceRange(s, delta_val) ==
    LET new_freq_a == [i \in Synths |-> Clamp(FREQ_MIN, FREQ_DEV_MAX, s.frequency_a[i] + delta_val)]
        new_freq_b == [i \in Synths |-> Clamp(FREQ_MIN, FREQ_DEV_MAX, s.frequency_b[i] + delta_val)]
        s1 == SetFrequencies(s, new_freq_a, new_freq_b, 0)
    IN TryExcept(s, IF s1.raised THEN s1
                    ELSE [s1 EXCEPT !.frequency_a = new_freq_a, !.frequency_b = new_freq_b])

\* RotateFrequency writing to the device only the targets whose value
\* changes.
RotateFrequencySkippingNoOps(s, delta_val) ==
    LET new_freq_a == [i \in Synths |-> Clamp(FREQ_MIN, FREQ_ENC_MAX, s.frequency_a[i] + delta_val)]
        new_freq_b == [i \in Synths |-> Clamp(FREQ_MIN, FREQ_ENC_MAX, s.frequency_b[i] + delta_val)]
        s1 == SetFrequencies(s, new_freq_a, new_freq_b, 0)
        Changes(c) == IF c[3] = "a" THEN c[4] # s.frequency_a[c[1]]
                      ELSE c[4] # s.frequency_b[c[1]]
    IN TryExcept(s, IF s1.raised THEN s1
                    ELSE [s1 EXCEPT !.frequency_a = new_freq_a, !.frequency_b = new_freq_b,
                                    !.sent = SelectSeq(s1.sent, Changes)])

\* RotateFrequency storing the new values of channel a only.
RotateFrequencyChannelA(s, delta_val) ==
    LET new_freq_a == [i \in Synths |-> Clamp(FREQ_MIN, FREQ_ENC_MAX, s.frequency_a[i] + delta_val)]
        new_freq_b == [i \in Synths |-> Clamp(FREQ_MIN, FREQ_ENC_MAX, s.frequency_b[i] + delta_val)]
        s1 == SetFrequencies(s, new_freq_a, new_freq_b, 0)
    IN TryExcept(s, IF s1.raised THEN s1
                    ELSE [s1 EXCEPT !.frequency_a = new_freq_a])

\* Rotation of frequency: every synth, both channels, each clamped.
RotateFrequency(s, delta_val) ==
    LET new_freq_a == [i \in Synths |-> Clamp(FREQ_MIN, FREQ_ENC_MAX, s.frequency_a[i] + delta_val)]
        new_freq_b == [i \in Synths |-> Clamp(FREQ_MIN, FREQ_ENC_MAX, s.frequency_b[i] + delta_val)]
        s1 == SetFrequencies(s, new_freq_a, new_freq_b, 0)
    IN TryExcept(s, IF s1.raised THEN s1
                    ELSE [s1 EXCEPT !.frequency_a = new_freq_a, !.frequency_b = new_freq_b])

RECURSIVE SetPhases(_, _, _, _)
SetPhases(s, channel, new_vals, i) ==
    IF i >= num_synths \/ s.raised THEN s
    ELSE SetPhases(set_phase(s, i, channel, new_vals[i]), channel, new_vals, i + 1)

\* RotatePhase moving both channels of the selected synth in individual
\* mode.
RotatePhaseIndividualBoth(s, delta_val) ==
    IF s.selection_mode["phase"] = "all"
    THEN LET new_vals == [i \in Synths |-> s.phase_b[i] + delta_val]
         IN IF \A i \in Synths : PHASE_MIN <= new_vals[i] /\ new_vals[i] <= PHASE_MAX
            THEN LET s1 == SetPhases(s, "b", new_vals, 0)
                 IN TryExcept(s, IF s1.raised THEN s1 ELSE [s1 EXCEPT !.phase_b = new_vals])
            ELSE s
    ELSE LET synth_idx == s.active_synth["phase"]
             channel == s.active_channel["phase"]
             key == IF channel = "a" THEN "phase_a" ELSE "phase_b"
             other == IF channel = "a" THEN "phase_b" ELSE "phase_a"
             new_val == Clamp(PHASE_MIN, PHASE_MAX, s[key][synth_idx] + delta_val)
             new_other == Clamp(PHASE_MIN, PHASE_MAX, s[other][synth_idx] + delta_val)
         IN TryExcept(s, Put(Put(set_phase(s, synth_idx, channel, new_val),
                                 key, synth_idx, new_val),
                             other, synth_idx, new_other))

\* RotatePhase moving channel a along with channel b in "all" mode.
RotatePhaseAllBoth(s, delta_val) ==
    IF s.selection_mode["phase"] = "all"
    THEN LET new_a == [i \in Synths |-> s.phase_a[i] + delta_val]
             new_b == [i \in Synths |-> s.phase_b[i] + delta_val]
         IN IF \A i \in Synths : /\ PHASE_MIN <= new_a[i] /\ new_a[i] <= PHASE_MAX
                                  /\ PHASE_MIN <= new_b[i] /\ new_b[i] <= PHASE_MAX
            THEN LET s1 == SetPhases(SetPhases(s, "a", new_a, 0), "b", new_b, 0)
                 IN TryExcept(s, IF s1.raised THEN s1
                                 ELSE [s1 EXCEPT !.phase_a = new_a, !.phase_b = new_b])
            ELSE s
    ELSE LET synth_idx == s.active_synth["phase"]
             channel == s.active_channel["phase"]
             key == IF channel = "a" THEN "phase_a" ELSE "phase_b"
             new_val == Clamp(PHASE_MIN, PHASE_MAX, s[key][synth_idx] + delta_val)
         IN TryExcept(s, Put(set_phase(s, synth_idx, channel, new_val), key, synth_idx, new_val))

\* Rotation of phase: in "all" mode channel b of every synth.
RotatePhase(s, delta_val) ==
    IF s.selection_mode["phase"] = "all"
    THEN LET new_vals == [i \in Synths |-> s.phase_b[i] + delta_val]
         IN IF \A i \in Synths : PHASE_MIN <= new_vals[i] /\ new_vals[i] <= PHASE_MAX
            THEN LET s1 == SetPhases(s, "b", new_vals, 0)
                 IN TryExcept(s, IF s1.raised THEN s1 ELSE [s1 EXCEPT !.phase_b = new_vals])
            ELSE s
    ELSE LET synth_idx == s.active_synth["phase"]
             channel == s.active_channel["phase"]
             key == IF channel = "a" THEN "phase_a" ELSE "phase_b"
             new_val == Clamp(PHASE_MIN, PHASE_MAX, s[key][synth_idx] + delta_val)
         IN TryExcept(s, Put(set_phase(s, synth_idx, channel, new_val), key, synth_idx, new_val))

\* A list entry that carries no 'id' key.
NoId == -1

\* The two slots a rotation creates in an empty list.
EmptySlots(phase) ==
    << [id |-> NoId, order |-> 3, amplitude |-> 0, phase |-> phase],
       [id |-> NoId, order |-> 5, amplitude |-> 0, phase |-> phase] >>

\* Index of the first entry of hlist with this order and phase, 0 if none.
FirstMatch(hlist, order, phase) ==
    LET M == {j \in 1..Len(hlist) : hlist[j].order = order /\ hlist[j].phase = phase}
    IN IF M = {} THEN 0 ELSE CHOOSE j \in M : \A j2 \in M : j <= j2

\* update_harmonics_list(hlist, order, phase, delta_val)
update_harmonics_list(hlist, order, phase, delta_val) ==
    LET j == FirstMatch(hlist, order, phase)
    IN IF j > 0
       THEN [hlist EXCEPT ![j].amplitude = Clamp(AMP_MIN, AMP_MAX, @ + delta_val)]
       ELSE Append(hlist, [id |-> NoId, order |-> order,
                           amplitude |-> Clamp(AMP_MIN, AMP_MAX, delta_val), phase |-> phase])

RECURSIVE UpdateEach(_, _, _)
\* for h in hlist: update_harmonics_list(hlist, h['order'], h['phase'], delta_val)
UpdateEach(hlist, k, delta_val) ==
    IF k > Len(hlist) THEN hlist
    ELSE UpdateEach(update_harmonics_list(hlist, hlist[k].order, hlist[k].phase, delta_val),
                    k + 1, delta_val)

RECURSIVE AddHarmonics(_, _, _, _, _)
\* for h in hlist: if h['amplitude'] > 0: synths[i].add_harmonic(...)
AddHarmonics(s, i, channel, hlist, k) ==
    IF k > Len(hlist) \/ s.raised THEN s
    ELSE AddHarmonics(IF hlist[k].amplitude > 0
                      THEN add_harmonic(s, i, channel, hlist[k].order, hlist[k].amplitude, hlist[k].phase)
                      ELSE s,
                      i, channel, hlist, k + 1)

\* The rotation of one channel's list of one synth.
RotateHarmonicsChannel(s, i, channel, delta_val) ==
    IF s.raised THEN s
    ELSE LET key == IF channel = "a" THEN "harmonics_a" ELSE "harmonics_b"
             base == IF s[key][i] = <<>>
                     THEN EmptySlots(IF channel = "a" THEN 0 ELSE 180)
                     ELSE s[key][i]
             hlist == UpdateEach(base, 1, delta_val)
             s1 == clear_harmonics([s EXCEPT ![key][i] = hlist], i, channel)
         IN AddHarmonics(s1, i, channel, hlist, 1)

RECURSIVE RotateHarmonicsAll(_, _, _)
RotateHarmonicsAll(s, i, delta_val) ==
    IF i >= num_synths \/ s.raised THEN s
    ELSE RotateHarmonicsAll(
             RotateHarmonicsChannel(RotateHarmonicsChannel(s, i, "a", delta_val), i, "b", delta_val),
             i + 1, delta_val)

\* Rotation of harmonics.
RotateHarmonics(s, delta_val) ==
    IF s.selection_mode["harmonics"] = "all"
    THEN RotateHarmonicsAll(s, 0, delta_val)
    ELSE RotateHarmonicsChannel(s, s.active_synth["harmonics"],
                                s.active_channel["harmonics"], delta_val)

\* RotationFunc recording the position only when the rotation wrote a
\* command to a device.
RotationFuncKeepingRejected(s, func, position) ==
    IF func \notin present THEN s
    ELSE IF position = s.last_positions[func] THEN s
    ELSE LET delta == position - s.last_positions[func]
             s0 == [s EXCEPT !.events = @ \cup {<<func, "Rotate">>}]
             s1 == CASE func = "amplitude_a" -> RotateAmplitude(s0, func, "a", delta)
                     [] func = "amplitude_b" -> RotateAmplitude(s0, func, "b", delta)
                     [] func = "frequency" -> RotateFrequency(s0, delta)
                     [] func = "phase" -> RotatePhase(s0, delta)
                     [] OTHER -> RotateHarmonics(s0, delta)
         IN IF s1.raised \/ s1.sent = s0.sent THEN s1
            ELSE [s1 EXCEPT !.last_positions[func] = position,
                            !.events = @ \cup {<<func, "Save">>}]

\* One iteration of the loop over the functions.
RotationFunc(s, func, position) ==
    IF func \notin present THEN s
    ELSE IF position = s.last_positions[func] THEN s
    ELSE LET delta == position - s.last_positions[func]
             s0 == [s EXCEPT !.events = @ \cup {<<func, "Rotate">>}]
             s1 == CASE func = "amplitude_a" -> RotateAmplitude(s0, func, "a", delta)
                     [] func = "amplitude_b" -> RotateAmplitude(s0, func, "b", delta)
                     [] func = "frequency" -> RotateFrequency(s0, delta)
                     [] func = "phase" -> RotatePhase(s0, delta)
                     [] OTHER -> RotateHarmonics(s0, delta)
         IN IF s1.raised THEN s1
            ELSE [s1 EXCEPT !.last_positions[func] = position,
                            !.events = @ \cup {<<func, "Save">>}]

RECURSIVE RotationFrom(_, _, _)
RotationFrom(s, k, position) ==
    IF k > Len(FuncOrder) \/ s.raised THEN s
    ELSE RotationFrom(RotationFunc(s, FuncOrder[k], position[FuncOrder[k]]), k + 1, position)

\* handle_encoder_rotation, the whole call.
handle_encoder_rotation(s, position) == RotationFrom(s, 1, position)

\* synth.set_harmonics(channel, value).  SynthInterface defines set_frequency,
\* set_amplitude, set_phase, add_harmonic and clear_harmonics and no
\* set_harmonics: the attribute lookup raises AttributeError.
set_harmonics(s, i, channel, value) ==
    IF s.raised THEN s ELSE [s EXCEPT !.raised = TRUE]

\* for harmonic in hlist: if harmonic['id'] == id: ...; break.  The index
\* the loop stops at, 0 when it runs to the end, and -1 when it first meets a
\* slot that has no 'id' key (KeyError).
IdScan(hlist, id) ==
    LET M == {j \in 1..Len(hlist) : hlist[j].id = id \/ hlist[j].id = NoId}
    IN IF M = {} THEN 0
       ELSE LET j == CHOOSE j1 \in M : \A j2 \in M : j1 <= j2
            IN IF hlist[j].id = NoId THEN -1 ELSE j

\* hlist without its j-th entry: list.remove(harmonic).
RemoveAt(hlist, j) ==
    [k \in 1..(Len(hlist) - 1) |-> IF k < j THEN hlist[k] ELSE hlist[k + 1]]

\* The set_harmonics branch of process_command_queue.  A command queued by
\* the REST route carries a list as its value and has no id, order,
\* amplitude and phase; one queued by the WebSocket handler carries them.
SetHarmonicsCommand(s, cmd) ==
    IF "id" \notin DOMAIN cmd
    THEN [s EXCEPT !.raised = TRUE]    \* value.get on a list
    ELSE IF cmd.channel \notin {"a", "b"}
    THEN [s EXCEPT !.raised = TRUE]    \* synth_state['harmonics_' + channel]
    ELSE LET i == cmd.synth_id
             channelStr == IF cmd.channel = "a" THEN "harmonics_a" ELSE "harmonics_b"
             hlist == s[channelStr][i]
             j == IdScan(hlist, cmd.id)
         IN IF j < 0 THEN [s EXCEPT !.raised = TRUE]
            ELSE LET changing == j > 0 /\ hlist[j].order # cmd.order
                     s1 == IF changing
                           THEN set_harmonics(s, i, cmd.channel,
                                    [id |-> cmd.id, order |-> hlist[j].order,
                                     amplitude |-> 0, phase |-> 0])
                           ELSE s
                     s2 == IF changing /\ ~s1.raised
                           THEN [s1 EXCEPT ![channelStr][i][j].amplitude = 0]
                           ELSE s1
                     deleteHarmonic == cmd.order < 3
                     value == IF deleteHarmonic
                              THEN [id |-> cmd.id, order |-> 3, amplitude |-> 0, phase |-> cmd.phase]
                              ELSE [id |-> cmd.id, order |-> cmd.order,
                                    amplitude |-> cmd.amplitude, phase |-> cmd.phase]
                     s3 == set_harmonics(s2, i, cmd.channel, value)
                     slot == [id |-> cmd.id, order |-> cmd.order,
                              amplitude |-> cmd.amplitude, phase |-> cmd.phase]
                 IN IF s3.raised THEN s3
                    ELSE IF j > 0
                    THEN IF deleteHarmonic
                         THEN [s3 EXCEPT ![channelStr][i] = RemoveAt(@, j)]
                         ELSE [s3 EXCEPT ![channelStr][i][j] = slot]
                    ELSE [s3 EXCEPT ![channelStr][i] = Append(@, slot)]

\* ------------------------------------------------------ process_command_queue
\* synth_id is not None and 0 <= synth_id < len(synths).  cmd.get('synth_id')
\* is None for a command that carries no synth_id: a record without the
\* field.
Addressed(cmd) ==
    /\ "synth_id" \in DOMAIN cmd
    /\ 0 <= cmd.synth_id /\ cmd.synth_id < num_synths

\* One queue entry: the try body of the while loop.  A setter that raises
\* does so before anything is written to the device or the store, and the
\* except clause of the loop swallows the exception.
ProcessCommand(s, cmd) ==
    IF ~Addressed(cmd) THEN s
    ELSE IF cmd.command = "set_amplitude"
    THEN LET s1 == set_amplitude(s, cmd.synth_id, cmd.channel, cmd.value)
         IN IF s1.raised THEN [s EXCEPT !.events = @ \cup {<<"queue", "Error">>}]
            ELSE IF cmd.channel = "a" THEN Put(s1, "amplitude_a", cmd.synth_id, cmd.value)
            ELSE IF cmd.channel = "b" THEN Put(s1, "amplitude_b", cmd.synth_id, cmd.value)
            ELSE s1
    ELSE IF cmd.command = "set_frequency"
    THEN LET s1 == set_frequency(s, cmd.synth_id, cmd.channel, cmd.value)
         IN IF s1.raised THEN [s EXCEPT !.events = @ \cup {<<"queue", "Error">>}]
            ELSE IF cmd.channel = "a" THEN Put(s1, "frequency_a", cmd.synth_id, cmd.value)
            ELSE IF cmd.channel = "b" THEN Put(s1, "frequency_b", cmd.synth_id, cmd.value)
            ELSE s1
    ELSE IF cmd.command = "set_phase"
    THEN LET s1 == set_phase(s, cmd.synth_id, cmd.channel, cmd.value)
         IN IF s1.raised THEN [s EXCEPT !.events = @ \cup {<<"queue", "Error">>}]
            ELSE IF cmd.channel = "a" THEN Put(s1, "phase_a", cmd.synth_id, cmd.value)
            ELSE IF cmd.channel = "b" THEN Put(s1, "phase_b", cmd.synth_id, cmd.value)
            ELSE s1
    ELSE IF cmd.command = "set_harmonics"
    THEN LET s1 == SetHarmonicsCommand(s, cmd)
         IN IF s1.raised
            THEN [s1 EXCEPT !.raised = FALSE, !.events = @ \cup {<<"queue", "Error">>}]
            ELSE s1
    ELSE s

RECURSIVE process_command_queue_lifo(_, _)
\* process_command_queue taking the newest command first.
process_command_queue_lifo(s, queue) ==
    IF queue = <<>> THEN s
    ELSE process_command_queue_lifo(ProcessCommand(s, queue[Len(queue)]),
                                    SubSeq(queue, 1, Len(queue) - 1))

RECURSIVE process_command_queue_aborting(_, _)
\* process_command_queue with the try around the whole loop: the first
\* command that fails ends the drain.
process_command_queue_aborting(s, queue) ==
    IF queue = <<>> THEN s
    ELSE LET s1 == ProcessCommand(s, Head(queue))
         IN IF <<"queue", "Error">> \in s1.events THEN s1
            ELSE process_command_queue_aborting(s1, Tail(queue))

RECURSIVE process_command_queue_stopping(_, _)
\* process_command_queue leaving the loop at the first command it does not
\* dispatch.
process_command_queue_stopping(s, queue) ==
    IF queue = <<>> THEN s
    ELSE IF ~Addressed(Head(queue)) \/ Head(queue).command = "set_enabled" THEN s
    ELSE process_command_queue_stopping(ProcessCommand(s, Head(queue)), Tail(queue))

RECURSIVE process_command_queue(_, _)
\* while not command_queue.empty(): get_nowait() and process, in FIFO order.
process_command_queue(s, queue) ==
    IF queue = <<>> THEN s
    ELSE process_command_queue(ProcessCommand(s, Head(queue)), Tail(queue))

\* -------------------------------------------------------------- persistence
\* A JSON value found under a harmonics key: a list of slots, or something
\* that is not a list (a number, as in the fallback defaults of main.py).
JsonList(items) == [is_list |-> TRUE, items |-> items]

NotAList == [is_list |-> FALSE, items |-> <<>>]

HarmonicKeys == {"harmonics_a", "harmonics_b"}

\* One record of the hardcoded defaults table, as the dict load_defaults
\* builds it.
DefaultDict(i) ==
    [amplitude_a |-> HardDefault(i).amplitude_a, amplitude_b |-> HardDefault(i).amplitude_b,
     frequency_a |-> HardDefault(i).frequency_a, frequency_b |-> HardDefault(i).frequency_b,
     phase_a |-> HardDefault(i).phase_a, phase_b |-> HardDefault(i).phase_b,
     harmonics_a |-> JsonList(<<>>),
     harmonics_b |-> JsonList(<< [id |-> 0, order |-> 5, amplitude |-> 0, phase |-> 0],
                                 [id |-> 1, order |-> 7, amplitude |-> 0, phase |-> 0],
                                 [id |-> 2, order |-> 11, amplitude |-> 0, phase |-> 0],
                                 [id |-> 3, order |-> 13, amplitude |-> 0, phase |-> 0] >>)]

\* default_data of load_defaults: a list of three records.
HardDefaults == <<DefaultDict(0), DefaultDict(1), DefaultDict(2)>>

\* A record whose harmonics keys hold lists, one that lacks both harmonics
\* keys, and one whose harmonics_a is not a list.
FullDict ==
    [amplitude_a |-> 98, amplitude_b |-> 98, frequency_a |-> 698, frequency_b |-> 698,
     phase_a |-> 358, phase_b |-> 358,
     harmonics_a |-> JsonList(<< [id |-> 0, order |-> 3, amplitude |-> 98, phase |-> 0] >>),
     harmonics_b |-> JsonList(<<>>)]

BareDict ==
    [amplitude_a |-> 2, amplitude_b |-> 2, frequency_a |-> 202, frequency_b |-> 200,
     phase_a |-> -358, phase_b |-> -358]

OddDict == [FullDict EXCEPT !.harmonics_a = NotAList]

SynthDicts == {FullDict, BareDict, OddDict}

\* The lists of records a file may hold under 'synths'.
SynthLists == UNION { [1..n -> SynthDicts] : n \in 0..MaxSynths }

\* The state file: absent, not parseable as JSON, or a JSON object with the
\* keys in keys; num_synths and synths are the values under those keys,
\* and synths_is_list tells whether the value under 'synths' is a list.
MissingFile ==
    [exists |-> FALSE, parses |-> FALSE, keys |-> {}, num_synths |-> 0,
     synths_is_list |-> TRUE, synths |-> <<>>]

GarbageFile == [MissingFile EXCEPT !.exists = TRUE]

JsonFile(keys, n, is_list, synths) ==
    [exists |-> TRUE, parses |-> TRUE, keys |-> keys, num_synths |-> n,
     synths_is_list |-> is_list, synths |-> synths]

StateFiles ==
    {MissingFile, GarbageFile}
    \cup {JsonFile({}, 0, TRUE, <<>>)}
    \cup {JsonFile({"num_synths"}, n, TRUE, <<>>) : n \in 1..MaxSynths}
    \cup {JsonFile({"synths"}, 0, TRUE, l) : l \in SynthLists}
    \cup {JsonFile({"num_synths", "synths"}, n, TRUE, l) : n \in 1..MaxSynths, l \in SynthLists}
    \cup {JsonFile({"num_synths", "synths"}, n, FALSE, <<>>) : n \in 1..MaxSynths}

\* The defaults a state manager may hold after load_defaults: the list of
\* the hardcoded table (also used when the defaults file is missing or
\* unreadable), a list read from the file, or the object {"synths": [...]}
\* read from the file, a shape main.py accepts for defaults.json.  The
\* records of a defaults file may lack list harmonics, as the fallback
\* record of main.py does.
DefaultsValues ==
    { [is_list |-> TRUE, synths |-> HardDefaults],
      [is_list |-> TRUE, synths |-> <<BareDict>>],
      [is_list |-> FALSE, synths |-> HardDefaults],
      [is_list |-> FALSE, synths |-> <<OddDict, BareDict>>] }

\* len(self.defaults): the length of the list, or the number of keys of the
\* object, which has the one key 'synths'.
DefaultsLen(defaults) == IF defaults.is_list THEN Len(defaults.synths) ELSE 1

\* The object before __init__ has run.
Unconstructed ==
    [status |-> "none", defaults |-> [is_list |-> TRUE, synths |-> <<>>],
     synths_is_list |-> FALSE, synths |-> <<>>, num_synths |-> 0,
     selection_mode_is_none |-> TRUE, op |-> "none", wrote |-> "none"]

\* The outcomes of the write in save_state: the file is written; open()
\* fails and the file is left as it was; the write fails after open()
\* truncated the file.
WriteOutcomes == {"written", "refused", "truncated"}

\* save_state(): dump num_synths and synths; a failure is logged, not raised.
\* w is the pair of the object and the file, under the write outcome
\* w.outcome.
save_state(w) ==
    CASE w.outcome = "written" ->
            [w EXCEPT !.file = JsonFile({"num_synths", "synths"}, w.sm.num_synths,
                                        w.sm.synths_is_list, w.sm.synths),
                      !.sm.wrote = "written"]
      [] w.outcome = "truncated" -> [w EXCEPT !.file = GarbageFile, !.sm.wrote = "truncated"]
      [] OTHER -> [w EXCEPT !.sm.wrote = "refused"]

\* The loop of load_state over self.synths: a harmonics key that is missing
\* or does not hold a list is set to the empty list.
EnsureLists(synths) ==
    [k \in 1..Len(synths) |->
        [key \in DOMAIN synths[k] \cup HarmonicKeys |->
            IF key \in HarmonicKeys
            THEN IF key \in DOMAIN synths[k] /\ synths[k][key].is_list
                 THEN synths[k][key]
                 ELSE JsonList(<<>>)
            ELSE synths[k][key]]]

\* load_state() without line 93: num_synths is taken from the file and not
\* from the length of the list read.
load_state_stale_count(w) ==
    IF ~w.file.exists
    THEN LET sm1 == [w.sm EXCEPT !.num_synths = DefaultsLen(w.sm.defaults),
                                 !.synths_is_list = w.sm.defaults.is_list,
                                 !.synths = IF w.sm.defaults.is_list
                                            THEN w.sm.defaults.synths ELSE <<>>]
         IN [save_state([w EXCEPT !.sm = sm1]) EXCEPT !.ret = "defaults"]
    ELSE IF ~w.file.parses \/ w.file.keys # {"num_synths", "synths"}
    THEN [w EXCEPT !.ret = "defaults"]
    ELSE IF ~w.file.synths_is_list
    THEN [w EXCEPT !.sm.num_synths = w.file.num_synths,
                   !.sm.synths_is_list = FALSE, !.sm.synths = <<>>,
                   !.ret = "defaults"]
    ELSE [w EXCEPT !.sm.synths_is_list = TRUE,
                   !.sm.synths = EnsureLists(w.file.synths),
                   !.sm.num_synths = w.file.num_synths,
                   !.ret = "state"]

\* load_state(): w.ret tells what is returned, "defaults" for a copy of
\* self.defaults and "state" for the dict read from the file.
load_state(w) ==
    IF ~w.file.exists
    THEN LET sm1 == [w.sm EXCEPT !.num_synths = DefaultsLen(w.sm.defaults),
                                 !.synths_is_list = w.sm.defaults.is_list,
                                 !.synths = IF w.sm.defaults.is_list
                                            THEN w.sm.defaults.synths ELSE <<>>]
         IN [save_state([w EXCEPT !.sm = sm1]) EXCEPT !.ret = "defaults"]
    ELSE IF ~w.file.parses
    THEN [w EXCEPT !.ret = "defaults"]
    ELSE IF w.file.keys # {"num_synths", "synths"}
    THEN [w EXCEPT !.ret = "defaults"]
    ELSE IF ~w.file.synths_is_list
    THEN \* len(self.synths) or the loop over it raises after the assignment
         [w EXCEPT !.sm.num_synths = w.file.num_synths,
                   !.sm.synths_is_list = FALSE, !.sm.synths = <<>>,
                   !.ret = "defaults"]
    ELSE [w EXCEPT !.sm.synths_is_list = TRUE,
                   !.sm.synths = EnsureLists(w.file.synths),
                   !.sm.num_synths = Len(w.file.synths),
                   !.ret = "state"]

\* SynthStateManager.__init__ for the defaults load_defaults yields: the
\* fields are set, then self.synths = copy.deepcopy(self.load_state())
\* .get("synths", []), which raises AttributeError when load_state returns
\* a list.
construct(file, defaults, outcome) ==
    LET sm0 == [Unconstructed EXCEPT !.defaults = defaults, !.op = "init"]
        w == load_state([sm |-> sm0, file |-> file, ret |-> "none", outcome |-> outcome])
    IN IF w.ret = "state"
       THEN [w EXCEPT !.sm.status = "constructed"]
       ELSE IF defaults.is_list
       THEN [w EXCEPT !.sm.status = "raised"]
       ELSE [w EXCEPT !.sm.status = "constructed",
                      !.sm.synths_is_list = TRUE, !.sm.synths = defaults.synths]

\* ---------------------------------------------------- initialize_system
\* load_synth_state(): None when the file is missing, cannot be parsed or
\* lacks one of the two keys, else the dict read.
load_synth_state(file) ==
    IF file.exists /\ file.parses /\ file.keys = {"num_synths", "synths"}
    THEN [is_none |-> FALSE, state |-> file]
    ELSE [is_none |-> TRUE, state |-> MissingFile]

\* [get_default_for_synth(i, key) for i in range(n)]
DefaultArray(n, key) == [k \in 1..n |-> get_default_for_synth(k - 1, key)]

\* The record of synth i that is saved when there is no state file.
DefaultStateDict(i) ==
    [amplitude_a |-> get_default_for_synth(i, "amplitude_a"),
     amplitude_b |-> get_default_for_synth(i, "amplitude_b"),
     frequency_a |-> get_default_for_synth(i, "frequency_a"),
     frequency_b |-> get_default_for_synth(i, "frequency_b"),
     phase_a |-> get_default_for_synth(i, "phase_a"),
     phase_b |-> get_default_for_synth(i, "phase_b"),
     harmonics_a |-> JsonList(<<>>), harmonics_b |-> JsonList(<<>>)]

\* Nothing has been initialised yet.
Uninitialised ==
    [source |-> "none", num_synths |-> 0,
     amplitude_a |-> <<>>, amplitude_b |-> <<>>, frequency_a |-> <<>>, frequency_b |-> <<>>,
     phase_a |-> <<>>, phase_b |-> <<>>, harmonics_a |-> <<>>, harmonics_b |-> <<>>]

\* s.get(key, get_default_for_synth(i, key)) for the record s of synth i.
GetOr(synth_states, k, key) ==
    IF key \in DOMAIN synth_states[k] THEN synth_states[k][key]
    ELSE get_default_for_synth(k - 1, key)

\* s.get(key, []) for a harmonics key.
GetOrEmpty(synth_states, k, key) ==
    IF key \in DOMAIN synth_states[k] THEN synth_states[k][key] ELSE JsonList(<<>>)

\* Step 3 of initialize_system for n connected synths: the file is created
\* from the defaults when it is missing (under the write outcome given),
\* then read, and the eight parameter arrays are built from what was read
\* or from the defaults.  The result is the file and the arrays.
initialize_store(n, file, outcome) ==
    LET file1 == IF file.exists THEN file
                 ELSE CASE outcome = "written" ->
                              JsonFile({"num_synths", "synths"}, n, TRUE,
                                       [k \in 1..n |-> DefaultStateDict(k - 1)])
                        [] outcome = "truncated" -> GarbageFile
                        [] OTHER -> file
        loaded == load_synth_state(file1)
        state == loaded.state
    IN IF ~loaded.is_none /\ state.num_synths = n /\ state.synths_is_list
       THEN [file |-> file1,
             system |->
               [source |-> "state", num_synths |-> n,
                amplitude_a |-> [k \in 1..Len(state.synths) |-> GetOr(state.synths, k, "amplitude_a")],
                amplitude_b |-> [k \in 1..Len(state.synths) |-> GetOr(state.synths, k, "amplitude_b")],
                frequency_a |-> [k \in 1..Len(state.synths) |-> GetOr(state.synths, k, "frequency_a")],
                frequency_b |-> [k \in 1..Len(state.synths) |-> GetOr(state.synths, k, "frequency_b")],
                phase_a |-> [k \in 1..Len(state.synths) |-> GetOr(state.synths, k, "phase_a")],
                phase_b |-> [k \in 1..Len(state.synths) |-> GetOr(state.synths, k, "phase_b")],
                harmonics_a |-> [k \in 1..Len(state.synths) |-> GetOrEmpty(state.synths, k, "harmonics_a")],
                harmonics_b |-> [k \in 1..Len(state.synths) |-> GetOrEmpty(state.synths, k, "harmonics_b")]]]
       ELSE [file |-> file1,
             system |->
               [source |-> "defaults", num_synths |-> n,
                amplitude_a |-> DefaultArray(n, "amplitude_a"),
                amplitude_b |-> DefaultArray(n, "amplitude_b"),
                frequency_a |-> DefaultArray(n, "frequency_a"),
                frequency_b |-> DefaultArray(n, "frequency_b"),
                phase_a |-> IF n = 3 THEN <<0, 120, -120>> ELSE DefaultArray(n, "phase_a"),
                phase_b |-> IF n = 3 THEN <<0, 120, -120>> ELSE DefaultArray(n, "phase_b"),
                harmonics_a |-> [k \in 1..n |-> JsonList(<<>>)],
                harmonics_b |-> [k \in 1..n |-> JsonList(<<>>)]]]

\* ------------------------------------------------------- emit_synth_state
\* The locals of the thread before its first iteration.
EmitterStart ==
    [last_state_is_none |-> TRUE, last_state |-> <<>>,
     last_selection_mode_is_none |-> TRUE, emitted |-> 0]

\* ------------------------------------------------------------ initial state
\* Persisted per-synth records near the upper and the lower bounds; channel
\* b of the low record sits on the lower frequency bound.
EdgeHigh ==
    [amplitude_a |-> 98, amplitude_b |-> 98, frequency_a |-> 698, frequency_b |-> 698,
     phase_a |-> 358, phase_b |-> 358,
     harmonics_a |-> << [id |-> 0, order |-> 3, amplitude |-> 98, phase |-> 0] >>,
     harmonics_b |-> <<>>]

EdgeLow ==
    [amplitude_a |-> 2, amplitude_b |-> 2, frequency_a |-> 202, frequency_b |-> 200,
     phase_a |-> -358, phase_b |-> -358,
     harmonics_a |-> <<>>,
     harmonics_b |-> << [id |-> 0, order |-> 5, amplitude |-> 2, phase |-> 180] >>]

\* The record of synth i when it is initialised from the defaults.
FromDefaults(D, i) ==
    LET d == IF i < Len(D) THEN D[i + 1] ELSE D[1]
    IN [amplitude_a |-> d.amplitude_a, amplitude_b |-> d.amplitude_b,
        frequency_a |-> d.frequency_a, frequency_b |-> d.frequency_b,
        phase_a |-> d.phase_a, phase_b |-> d.phase_b,
        harmonics_a |-> <<>>, harmonics_b |-> <<>>]

\* The store the program starts from, loaded from a persisted state in
\* which synth 0 sits near the upper bounds and synth 2 near the lower
\* ones; the other synths hold their defaults.
InitialStores(n, D) ==
    { [i \in 0..(n - 1) |->
          IF i = 0 THEN EdgeHigh ELSE IF i = 2 THEN EdgeLow ELSE FromDefaults(D, i)] }

\* ------------------------------------------------------------ class Encoder
\* No Encoder object exists: the control loop reads the hardware encoders
\* itself.
NoEncoder ==
    [constructed |-> FALSE, position |-> 0, last_position |-> 0,
     start |-> 0, total |-> 0, last_delta |-> 0, reads |-> 0, moved |-> FALSE]

\* Encoder(hardware_encoder, button) on a counter that stands at p:
\* self._last_position = self.position.  start, total, last_delta, reads
\* and moved record the position at construction, the sum and the last of
\* the values delta returned, the number of reads, and whether the counter
\* moved since the last read.
EncoderAt(p) ==
    [constructed |-> TRUE, position |-> p, last_position |-> p,
     start |-> p, total |-> 0, last_delta |-> 0, reads |-> 0, moved |-> FALSE]

\* Encoder.delta returning the distance from the position at construction.
Encoder_delta_from_start(e) ==
    LET pos == e.position
        d == pos - e.start
    IN [e EXCEPT !.last_position = pos, !.total = @ + d, !.last_delta = d,
                 !.reads = @ + 1, !.moved = FALSE]

\* Encoder.delta: pos = self.position; d = pos - self._last_position;
\* self._last_position = pos; return d.
Encoder_delta(e) ==
    LET pos == e.position
        d == pos - e.last_position
    IN [e EXCEPT !.last_position = pos, !.total = @ + d, !.last_delta = d,
                 !.reads = @ + 1, !.moved = FALSE]

\* Everything but the encoders fitted and the environment's budget, for a
\* defaults file whose content is one of choices.
InitControl(choices) ==
    /\ num_synths \in 1..MaxSynths
    /\ DEFAULTS_LIST \in choices
    /\ \E st \in InitialStores(num_synths, DEFAULTS_LIST) :
          /\ amplitude_a = [i \in Synths |-> st[i].amplitude_a]
          /\ amplitude_b = [i \in Synths |-> st[i].amplitude_b]
          /\ frequency_a = [i \in Synths |-> st[i].frequency_a]
          /\ frequency_b = [i \in Synths |-> st[i].frequency_b]
          /\ phase_a = [i \in Synths |-> st[i].phase_a]
          /\ phase_b = [i \in Synths |-> st[i].phase_b]
          /\ harmonics_a = [i \in Synths |-> st[i].harmonics_a]
          /\ harmonics_b = [i \in Synths |-> st[i].harmonics_b]
    /\ selection_mode = [f \in Funcs |-> "all"]
    /\ selection_time = [f \in Funcs |-> 0]
    /\ active_synth = [f \in Funcs |-> 0]
    /\ active_channel = [f \in {"phase", "harmonics"} |-> "a"]
    /\ button_pressed = [f \in Funcs |-> FALSE]
    /\ button_press_time = [f \in Funcs |-> 0]
    /\ was_held = [f \in Funcs |-> FALSE]
    /\ block_release = [f \in Funcs |-> FALSE]
    /\ last_positions = [f \in Funcs |-> 0]
    /\ command_queue = <<>>
    /\ now = 0
    /\ pc = "timeouts"
    /\ running = TRUE
    /\ sent = <<>>
    /\ events = {}
    /\ button_level = [f \in Funcs |-> FALSE]
    /\ press_start = [f \in Funcs |-> 0]
    /\ holds_in_press = [f \in Funcs |-> 0]
    /\ drained = <<>>
    /\ encoder_position = [f \in Funcs |-> 0]
    /\ left_stale = [f \in Funcs |-> FALSE]

\* The control loop alone: no state manager is constructed, no state file is
\* read and the web server does not run.
InitWith(choices) ==
    /\ InitControl(choices)
    /\ encoder = NoEncoder
    /\ state_file = MissingFile
    /\ state_manager = Unconstructed
    /\ system = Uninitialised
    /\ emitter = EmitterStart

\* The defaults file is missing or holds the values of the hardcoded table.
InitCommon == InitWith(DefaultsChoices)

\* One encoder is fitted; every function is handled on its own, so one run
\* follows one function.
InitProgram ==
    /\ InitCommon
    /\ present \in {{f} : f \in Funcs}

\* The control loop on its own: the encoders turn, nothing is enqueued, the
\* serial ports accept every write.
Init ==
    /\ InitProgram
    /\ rot_left = MaxRotations
    /\ cmd_left = 0
    /\ t_end = MaxTime
    /\ device_faults = FALSE

\* The control loop with the external producer; the run is cut off once a
\* hold has had the time to happen.
InitFull ==
    /\ InitProgram
    /\ rot_left = MaxRotations
    /\ cmd_left = MaxCommands
    /\ t_end = hold_threshold
    /\ device_faults = FALSE

\* The control loop with serial ports that may fail; the run is cut off once
\* a hold has had the time to happen.
InitFaults ==
    /\ InitProgram
    /\ rot_left = MaxRotations
    /\ cmd_left = 0
    /\ t_end = hold_threshold
    /\ device_faults = TRUE

\* The control loop started on a defaults file with an out-of-range value;
\* the run is cut off once a hold has had the time to happen.
InitOutOfRange ==
    /\ InitWith(OutOfRangeDefaults)
    /\ present \in {{f} : f \in Funcs}
    /\ rot_left = MaxRotations
    /\ cmd_left = 0
    /\ t_end = hold_threshold
    /\ device_faults = FALSE

\* Two encoders are fitted: an amplitude encoder and the phase or the
\* harmonics encoder, which are handled in one call one after the other.
\* Their buttons are used, their knobs are left alone.
InitPair ==
    /\ InitCommon
    /\ num_synths <= MaxPairSynths
    /\ present \in {{"amplitude_a", "phase"}, {"amplitude_b", "harmonics"}}
    /\ rot_left = 0
    /\ cmd_left = 0
    /\ t_end = MaxTime
    /\ device_faults = FALSE

\* No encoder is fitted: the external producer alone drives the synths,
\* through serial ports that may fail.
InitQueue ==
    /\ InitCommon
    /\ present = {}
    /\ rot_left = 0
    /\ cmd_left = MaxQueue
    /\ t_end = 0
    /\ device_faults = TRUE

\* ------------------------------------------------------------------ actions
\* Config without the Encoder object.
Config_store == <<num_synths, present, DEFAULTS_LIST, t_end, device_faults,
                  state_file, state_manager, system, emitter>>

\* What the control loop reads and never writes.
Config == <<num_synths, present, DEFAULTS_LIST, t_end, device_faults,
            state_file, state_manager, system, emitter, encoder>>

Ghost == <<button_level, press_start, holds_in_press, encoder_position, left_stale>>

\* Step 1 of a tick: check_selection_timeouts.
CheckTimeouts ==
    /\ running /\ pc = "timeouts"
    /\ Commit(check_selection_timeouts(Cur))
    /\ pc' = "buttons"
    /\ UNCHANGED <<Config, Ghost, drained, command_queue, now, rot_left, cmd_left>>

\* The button levels one call may sample: absent buttons read released.
Levels == {lv \in [Funcs -> BOOLEAN] : \A f \in Funcs \ present : ~lv[f]}

\* Step 2 of a tick: handle_encoder_buttons, sampling every button once.
HandleButtons ==
    /\ running /\ pc = "buttons"
    /\ \E pressed \in Levels, writable \in Writables :
          LET s == handle_encoder_buttons(CurWith(writable), pressed)
          IN /\ Commit(s)
             /\ button_level' = pressed
             /\ press_start' = [f \in Funcs |->
                   IF pressed[f] /\ ~button_level[f] THEN now ELSE press_start[f]]
             /\ holds_in_press' = [f \in Funcs |->
                   IF ~pressed[f] THEN 0
                   ELSE IF <<f, "Hold">> \in s.events THEN holds_in_press[f] + 1
                   ELSE holds_in_press[f]]
             /\ left_stale' = [f \in Funcs |->
                   IF selection_mode[f] = "all" /\ s.selection_mode[f] = "individual"
                   THEN \/ active_synth[f] # 0
                        \/ f \in DOMAIN active_channel /\ active_channel[f] # "a"
                   ELSE FALSE]
    /\ pc' = "rotation"
    /\ UNCHANGED <<Config, drained, command_queue, now, rot_left, cmd_left, encoder_position>>

\* The encoder positions one call may read.
Positions ==
    {ps \in [Funcs -> {p * PosStep : p \in (0 - MaxPos)..MaxPos}] :
        \A f \in Funcs \ present : ps[f] = last_positions[f]}

\* Step 3 of a tick: handle_encoder_rotation, reading every encoder once.
HandleRotation ==
    /\ running /\ pc = "rotation"
    /\ \E position \in Positions, writable \in Writables :
          LET moved == Cardinality({f \in Funcs : position[f] # last_positions[f]})
          IN /\ moved <= rot_left
             /\ rot_left' = rot_left - moved
             /\ Commit(handle_encoder_rotation(CurWith(writable), position))
             /\ encoder_position' = position
    /\ pc' = "queue"
    /\ UNCHANGED <<Config, button_level, press_start, holds_in_press, left_stale,
                   drained, command_queue, now, cmd_left>>

\* The values an external command may carry.
CommandValues == {50, 100, 750}

\* The command dicts the web server queues.  The REST route queues a
\* set_harmonics command whose value is a list of floats (the model keeps its
\* first element); the WebSocket handler queues one whose value is a dict of
\* id, order, amplitude and phase, which the model keeps as fields of the
\* command.  The WebSocket handler queues whatever synth_id the client sent,
\* None (no field) and negative numbers included.
Commands ==
    [synth_id : {0, num_synths},
     command : {"set_amplitude", "set_frequency", "set_phase", "set_enabled"},
     channel : {"a", "b", "A", "x"},
     value : CommandValues]
    \cup
    [command : {"set_amplitude"}, channel : {"a"}, value : {50}]
    \cup
    [synth_id : {0 - 1}, command : {"set_phase"}, channel : {"b"}, value : {100}]
    \cup
    [synth_id : {0}, command : {"set_harmonics"}, channel : {"a"}, value : {50}]
    \cup
    [synth_id : {0}, command : {"set_harmonics"}, channel : {"a"},
     id : {0, 1}, order : {1, 3, 5}, amplitude : {0, 50}, phase : {0}]

\* The external producer puts one command on the queue.
Enqueue ==
    /\ running /\ pc = "queue"
    /\ cmd_left > 0
    /\ \E cmd \in Commands : command_queue' = Append(command_queue, cmd)
    /\ cmd_left' = cmd_left - 1
    /\ UNCHANGED <<Config, Ghost, drained, amplitude_a, amplitude_b, frequency_a, frequency_b,
                   phase_a, phase_b, harmonics_a, harmonics_b,
                   selection_mode, selection_time, active_synth, active_channel,
                   button_pressed, button_press_time, was_held, block_release,
                   last_positions, now, pc, running, sent, events, rot_left>>

\* Step 4 of a tick: process_command_queue drains the queue.
ProcessQueue ==
    /\ running /\ pc = "queue"
    /\ \E writable \in Writables :
          Commit(process_command_queue(CurWith(writable), command_queue))
    /\ command_queue' = <<>>
    /\ pc' = "sleep"
    /\ drained' = command_queue
    /\ UNCHANGED <<Config, Ghost, now, rot_left, cmd_left>>

\* Step 5 of a tick: time.sleep; dt time units pass before the next tick.
Sleep ==
    /\ running /\ pc = "sleep"
    /\ \E dt \in {0, 1} :
          /\ now + dt <= t_end
          /\ now' = now + dt
    /\ pc' = "timeouts"
    /\ drained' = <<>>
    /\ UNCHANGED <<Config, Ghost, amplitude_a, amplitude_b, frequency_a, frequency_b,
                   phase_a, phase_b, harmonics_a, harmonics_b,
                   selection_mode, selection_time, active_synth, active_channel,
                   button_pressed, button_press_time, was_held, block_release,
                   last_positions, command_queue, running, sent, events, rot_left, cmd_left>>

\* One tick of the control loop of main(): timeouts, buttons, rotation,
\* queue drain, sleep.
Next ==
    \/ CheckTimeouts
    \/ HandleButtons
    \/ HandleRotation
    \/ ProcessQueue
    \/ Sleep

Spec == Init /\ [][Next]_vars

NextFull ==
    \/ Next
    \/ Enqueue

SpecFull == InitFull /\ [][NextFull]_vars

SpecFaults == InitFaults /\ [][Next]_vars

SpecQueue == InitQueue /\ [][NextFull]_vars

\* The control loop on a defaults file with an out-of-range value.
SpecDefaults == InitOutOfRange /\ [][Next]_vars

\* The control loop with two encoders fitted.
SpecPair == InitPair /\ [][Next]_vars

\* ---------------------------------------------------- the store on disk
\* Everything the control loop and the external producer own.
Control ==
    <<num_synths, present, DEFAULTS_LIST, t_end, device_faults,
      amplitude_a, amplitude_b, frequency_a, frequency_b, phase_a, phase_b,
      harmonics_a, harmonics_b,
      selection_mode, selection_time, active_synth, active_channel,
      button_pressed, button_press_time, was_held, block_release,
      last_positions, command_queue, now, pc, running, sent, events,
      button_level, press_start, holds_in_press, rot_left, cmd_left, drained,
      encoder_position, left_stale, encoder>>

\* The control loop is not running; the state file holds any of StateFiles.
InitStore ==
    /\ InitControl(DefaultsChoices)
    /\ encoder = NoEncoder
    /\ present = {}
    /\ rot_left = 0
    /\ cmd_left = 0
    /\ t_end = 0
    /\ device_faults = FALSE
    /\ state_file \in StateFiles
    /\ state_manager = Unconstructed
    /\ system = Uninitialised
    /\ emitter = EmitterStart

\* SynthStateManager(STATE_FILE, DEFAULTS_FILE), at the first start or at a
\* restart after the constructor raised.
Construct ==
    /\ state_manager.status \in {"none", "raised"}
    /\ \E defaults \in DefaultsValues, outcome \in WriteOutcomes :
          LET w == construct(state_file, defaults, outcome)
          IN /\ state_manager' = w.sm
             /\ state_file' = w.file
    /\ UNCHANGED <<Control, system, emitter>>

\* The pair of the object and the file a method is called on.
World(op, outcome) ==
    [sm |-> [state_manager EXCEPT !.op = op], file |-> state_file,
     ret |-> "none", outcome |-> outcome]

\* state_manager.load_state()
LoadState ==
    /\ state_manager.status = "constructed"
    /\ \E outcome \in WriteOutcomes :
          LET w == load_state(World("load_state", outcome))
          IN /\ state_manager' = w.sm
             /\ state_file' = w.file
    /\ UNCHANGED <<Control, system, emitter>>

\* state_manager.save_state()
SaveState ==
    /\ state_manager.status = "constructed"
    /\ \E outcome \in WriteOutcomes :
          LET w == save_state(World("save_state", outcome))
          IN /\ state_manager' = w.sm
             /\ state_file' = w.file
    /\ UNCHANGED <<Control, system, emitter>>

\* state_manager.save_state(); state_manager.load_state()
SaveLoad ==
    /\ state_manager.status = "constructed"
    /\ \E outcome \in WriteOutcomes :
          LET w == load_state(save_state(World("save_load", outcome)))
          IN /\ state_manager' = w.sm
             /\ state_file' = w.file
    /\ UNCHANGED <<Control, system, emitter>>

\* Step 3 of initialize_system for the num_synths synths that connected.
InitializeSystem ==
    /\ system.source = "none"
    /\ \E outcome \in WriteOutcomes :
          LET r == initialize_store(num_synths, state_file, outcome)
          IN /\ system' = r.system
             /\ state_file' = r.file
    /\ UNCHANGED <<Control, state_manager, emitter>>

NextStore == Construct \/ LoadState \/ SaveState \/ SaveLoad \/ InitializeSystem

\* The state manager and initialize_system on every state file.
SpecStore == InitStore /\ [][NextStore]_vars

\* ------------------------------------------------------- the web server
\* The record of synth i as a dict of the state file.
StoreDict(i) ==
    [amplitude_a |-> amplitude_a[i], amplitude_b |-> amplitude_b[i],
     frequency_a |-> frequency_a[i], frequency_b |-> frequency_b[i],
     phase_a |-> phase_a[i], phase_b |-> phase_b[i],
     harmonics_a |-> JsonList(harmonics_a[i]), harmonics_b |-> JsonList(harmonics_b[i])]

\* The web server runs beside the control loop on a state manager that was
\* constructed from a state file holding the values of the store; no
\* encoder is fitted.
InitWeb ==
    /\ InitControl(DefaultsChoices)
    /\ encoder = NoEncoder
    /\ present = {}
    /\ rot_left = 0
    /\ cmd_left = MaxCommands
    /\ t_end = 0
    /\ device_faults = FALSE
    /\ state_file = JsonFile({"num_synths", "synths"}, num_synths, TRUE,
                              [k \in 1..num_synths |-> StoreDict(k - 1)])
    /\ state_manager = construct(state_file, [is_list |-> TRUE, synths |-> HardDefaults],
                                  "written").sm
    /\ system = Uninitialised
    /\ emitter = EmitterStart

\* copy.deepcopy(state_manager.synths): the parameter values, which
\* process_command_queue writes and the model holds in the store arrays, and
\* the records with the keys the request handlers add.
SynthsSnapshot ==
    [values |-> [amplitude_a |-> amplitude_a, amplitude_b |-> amplitude_b,
                 frequency_a |-> frequency_a, frequency_b |-> frequency_b,
                 phase_a |-> phase_a, phase_b |-> phase_b,
                 harmonics_a |-> harmonics_a, harmonics_b |-> harmonics_b],
     records |-> state_manager.synths]

\* One iteration of the loop of emit_synth_state.
EmitSynthState ==
    /\ state_manager.status = "constructed"
    /\ emitter.emitted < MaxEmits
    /\ LET current_state == SynthsSnapshot
           selection_mode_is_none == state_manager.selection_mode_is_none
           state_changed ==
               emitter.last_state_is_none \/ current_state # emitter.last_state
           selection_mode_changed ==
               emitter.last_selection_mode_is_none
               \/ selection_mode_is_none # emitter.last_selection_mode_is_none
       IN emitter' = IF state_changed \/ selection_mode_changed
                     THEN [last_state_is_none |-> FALSE, last_state |-> current_state,
                           last_selection_mode_is_none |-> selection_mode_is_none,
                           emitted |-> emitter.emitted + 1]
                     ELSE emitter
    /\ UNCHANGED <<Control, state_file, state_manager, system>>

\* d with d[key] = v, the key added when it is missing.
WithKey(d, key, v) ==
    [k \in DOMAIN d \cup {key} |-> IF k = key THEN v ELSE d[k]]

\* The synthAutoOn lists a settings request may carry: three booleans.
AutoOnChoices == { <<FALSE, FALSE, FALSE>>, <<TRUE, FALSE, TRUE>> }

\* POST /api/settings with valid settings: the handler sets auto_on on the
\* records of state_manager.synths and calls save_state().
SaveSettings ==
    /\ state_manager.status = "constructed"
    /\ state_manager.synths_is_list
    /\ \E synthAutoOn \in AutoOnChoices, outcome \in WriteOutcomes :
          LET synths1 == [k \in 1..Len(state_manager.synths) |->
                             IF k <= 3
                             THEN WithKey(state_manager.synths[k], "auto_on", synthAutoOn[k])
                             ELSE state_manager.synths[k]]
              w == save_state([sm |-> [state_manager EXCEPT !.synths = synths1,
                                                            !.op = "save_settings"],
                               file |-> state_file, ret |-> "none", outcome |-> outcome])
          IN /\ state_manager' = w.sm
             /\ state_file' = w.file
    /\ UNCHANGED <<Control, system, emitter>>

\* POST /api/defaults with a list: the handler replaces
\* state_manager.defaults and calls save_state().
SetDefaults ==
    /\ state_manager.status = "constructed"
    /\ \E defaults \in {d \in DefaultsValues : d.is_list}, outcome \in WriteOutcomes :
          LET w == save_state([sm |-> [state_manager EXCEPT !.defaults = defaults,
                                                            !.op = "set_defaults"],
                               file |-> state_file, ret |-> "none", outcome |-> outcome])
          IN /\ state_manager' = w.sm
             /\ state_file' = w.file
    /\ UNCHANGED <<Control, system, emitter>>

NextWeb ==
    \/ NextFull
    \/ EmitSynthState
    \/ SaveSettings
    \/ SetDefaults

\* The control loop, the external producer and the threads of the web
\* server.
SpecWeb == InitWeb /\ [][NextWeb]_vars

\* ------------------------------------------------------- the Encoder class
\* The positions the hardware counter may stand at.
EncoderPositions == (0 - MaxEnc)..MaxEnc

\* An Encoder object was constructed on a counter standing anywhere; the
\* control loop does not run.
InitEncoder ==
    /\ InitControl(DefaultsChoices)
    /\ present = {}
    /\ rot_left = 0
    /\ cmd_left = 0
    /\ t_end = 0
    /\ device_faults = FALSE
    /\ state_file = MissingFile
    /\ state_manager = Unconstructed
    /\ system = Uninitialised
    /\ emitter = EmitterStart
    /\ encoder \in {EncoderAt(p) : p \in EncoderPositions}

\* The knob is turned: the hardware counter moves to another position.
TurnEncoder ==
    /\ encoder.constructed
    /\ \E p \in EncoderPositions \ {encoder.position} :
          encoder' = [encoder EXCEPT !.position = p, !.moved = TRUE]
    /\ UNCHANGED <<Config_store, Ghost, drained, amplitude_a, amplitude_b,
                   frequency_a, frequency_b, phase_a, phase_b, harmonics_a, harmonics_b,
                   selection_mode, selection_time, active_synth, active_channel,
                   button_pressed, button_press_time, was_held, block_release,
                   last_positions, command_queue, now, pc, running, sent, events,
                   rot_left, cmd_left>>

\* A caller reads encoder.delta.
ReadDelta ==
    /\ encoder.constructed
    /\ encoder.reads < MaxReads
    /\ encoder' = Encoder_delta(encoder)
    /\ UNCHANGED <<Config_store, Ghost, drained, amplitude_a, amplitude_b,
                   frequency_a, frequency_b, phase_a, phase_b, harmonics_a, harmonics_b,
                   selection_mode, selection_time, active_synth, active_channel,
                   button_pressed, button_press_time, was_held, block_release,
                   last_positions, command_queue, now, pc, running, sent, events,
                   rot_left, cmd_left>>

NextEncoder == TurnEncoder \/ ReadDelta

\* One Encoder object, its knob and its reader.
SpecEncoder == InitEncoder /\ [][NextEncoder]_vars

\* ======================================================================
\* Properties
\* ======================================================================
\* The stored parameters a function drives.
StoreOf(f) ==
    CASE f = "amplitude_a" -> <<amplitude_a>>
      [] f = "amplitude_b" -> <<amplitude_b>>
      [] f = "frequency" -> <<frequency_a, frequency_b>>
      [] f = "phase" -> <<phase_a, phase_b>>
      [] OTHER -> <<harmonics_a, harmonics_b>>

Store == <<amplitude_a, amplitude_b, frequency_a, frequency_b, phase_a, phase_b,
           harmonics_a, harmonics_b>>

\* The candidate values (stored value + delta) an "all"-mode rotation of
\* amplitude_a, amplitude_b or phase computes, one per synth; for phase
\* they are those of channel b, the channel the "all"-mode rotation drives.
Candidates(f, delta) ==
    CASE f = "amplitude_a" -> [i \in Synths |-> amplitude_a[i] + delta]
      [] f = "amplitude_b" -> [i \in Synths |-> amplitude_b[i] + delta]
      [] OTHER -> [i \in Synths |-> phase_b[i] + delta]

LowerBound(f) == IF f = "phase" THEN PHASE_MIN ELSE AMP_MIN

UpperBound(f) == IF f = "phase" THEN PHASE_MAX ELSE AMP_MAX

\* Some synth's candidate lies outside the bound of f.
SomeCandidateOut(f, delta) ==
    \E i \in Synths : Candidates(f, delta)[i] < LowerBound(f)
                      \/ Candidates(f, delta)[i] > UpperBound(f)

\* C1: in "all" mode, a rotation of amplitude_a, amplitude_b or phase for
\* which some synth's candidate value (stored value + delta) is outside its
\* bound changes no stored value and writes no device command.
C1_AllModeRejection ==
    [][ \A f \in {"amplitude_a", "amplitude_b", "phase"} :
          ( /\ pc = "rotation"
            /\ <<f, "Rotate">> \in events'
            /\ selection_mode[f] = "all"
            /\ SomeCandidateOut(f, last_positions'[f] - last_positions[f]) )
          => (Store' = Store /\ sent' = <<>>) ]_vars

\* Three synths, amplitude_a in "all" mode, synth 0 at 98 %, delta +5: the
\* rotation has been consumed, nothing was written.
C1_Witness ==
    /\ num_synths = 3
    /\ pc = "queue"
    /\ <<"amplitude_a", "Rotate">> \in events
    /\ selection_mode["amplitude_a"] = "all"
    /\ last_positions["amplitude_a"] = PosStep
    /\ amplitude_a[0] = 98
    /\ amplitude_a[2] = 2
    /\ sent = <<>>

\* The list a harmonics rotation works on: the stored one, or the two
\* fresh slots when the stored one is empty.
RotationBase(hlist, channel) ==
    IF hlist = <<>> THEN EmptySlots(IF channel = "a" THEN 0 ELSE 180) ELSE hlist

\* Some target of an "all"-mode rotation of f by delta would leave its bound.
SomeTargetOut(f, delta) ==
    CASE f \in {"amplitude_a", "amplitude_b", "phase"} -> SomeCandidateOut(f, delta)
      [] f = "frequency" ->
            \E i \in Synths :
               \/ frequency_a[i] + delta < FREQ_MIN \/ frequency_a[i] + delta > FREQ_ENC_MAX
               \/ frequency_b[i] + delta < FREQ_MIN \/ frequency_b[i] + delta > FREQ_ENC_MAX
      [] OTHER ->
            \E i \in Synths :
               \/ \E k \in 1..Len(RotationBase(harmonics_a[i], "a")) :
                     LET v == RotationBase(harmonics_a[i], "a")[k].amplitude + delta
                     IN v < AMP_MIN \/ v > AMP_MAX
               \/ \E k \in 1..Len(RotationBase(harmonics_b[i], "b")) :
                     LET v == RotationBase(harmonics_b[i], "b")[k].amplitude + delta
                     IN v < AMP_MIN \/ v > AMP_MAX

\* C2, as stated: for every function, frequency and harmonics included, an
\* "all"-mode rotation for which any target's resulting value would fall
\* outside its bound leaves every target's stored value unchanged.
C2_RejectionForEveryFunction ==
    [][ \A f \in Funcs :
          ( /\ pc = "rotation"
            /\ <<f, "Rotate">> \in events'
            /\ selection_mode[f] = "all"
            /\ SomeTargetOut(f, last_positions'[f] - last_positions[f]) )
          => StoreOf(f)' = StoreOf(f) ]_vars

\* A slot whose (order, phase) no earlier or later slot of the list shares.
UniqueSlot(hlist, k) ==
    \A j \in 1..Len(hlist) :
       (hlist[j].order = hlist[k].order /\ hlist[j].phase = hlist[k].phase) => j = k

\* The list after a rotation clamps every slot on its own.
ClampedList(before, after, channel, delta) ==
    LET base == RotationBase(before, channel)
    IN /\ Len(after) = Len(base)
       /\ \A k \in 1..Len(base) :
             UniqueSlot(base, k) =>
                after[k] = [base[k] EXCEPT !.amplitude = Clamp(AMP_MIN, AMP_MAX, @ + delta)]

\* C2, amended: in "all" mode a rotation of amplitude_a, amplitude_b or
\* phase with a target out of bound leaves the stored values of the
\* function unchanged; a rotation of frequency sets every frequency to
\* max(20, min(70, stored + 0.1 * delta)), and a rotation of harmonics sets
\* the amplitude of every slot to max(0, min(100, stored + delta)): these
\* two clamp each target instead of rejecting the rotation.
C2_RejectionOrClamping ==
    [][ /\ \A f \in {"amplitude_a", "amplitude_b", "phase"} :
             ( /\ pc = "rotation"
               /\ <<f, "Rotate">> \in events'
               /\ selection_mode[f] = "all"
               /\ SomeTargetOut(f, last_positions'[f] - last_positions[f]) )
             => StoreOf(f)' = StoreOf(f)
        /\ (pc = "rotation" /\ <<"frequency", "Rotate">> \in events') =>
             LET delta == last_positions'["frequency"] - last_positions["frequency"]
             IN \A i \in Synths :
                   /\ frequency_a'[i] = Clamp(FREQ_MIN, FREQ_ENC_MAX, frequency_a[i] + delta)
                   /\ frequency_b'[i] = Clamp(FREQ_MIN, FREQ_ENC_MAX, frequency_b[i] + delta)
        /\ ( /\ pc = "rotation"
             /\ <<"harmonics", "Rotate">> \in events'
             /\ selection_mode["harmonics"] = "all" ) =>
             LET delta == last_positions'["harmonics"] - last_positions["harmonics"]
             IN \A i \in Synths :
                   /\ ClampedList(harmonics_a[i], harmonics_a'[i], "a", delta)
                   /\ ClampedList(harmonics_b[i], harmonics_b'[i], "b", delta) ]_vars

\* A frequency rotation upwards has been clamped at 70 Hz on synth 0 and
\* applied in full on synth 2.
C2_Witness ==
    /\ num_synths = 3
    /\ pc = "queue"
    /\ <<"frequency", "Rotate">> \in events
    /\ last_positions["frequency"] > 0
    /\ frequency_a[0] = FREQ_ENC_MAX
    /\ frequency_a[2] > 202
    /\ sent # <<>>

\* C3: every stored amplitude lies in [0,100], every stored phase in
\* [-360,360] and every stored frequency in the range the device accepts
\* (20 to 8000 Hz).
C3_StoreInBounds ==
    \A i \in Synths :
       /\ AMP_MIN <= amplitude_a[i] /\ amplitude_a[i] <= AMP_MAX
       /\ AMP_MIN <= amplitude_b[i] /\ amplitude_b[i] <= AMP_MAX
       /\ PHASE_MIN <= phase_a[i] /\ phase_a[i] <= PHASE_MAX
       /\ PHASE_MIN <= phase_b[i] /\ phase_b[i] <= PHASE_MAX
       /\ FREQ_MIN <= frequency_a[i] /\ frequency_a[i] <= FREQ_DEV_MAX
       /\ FREQ_MIN <= frequency_b[i] /\ frequency_b[i] <= FREQ_DEV_MAX

\* An external command with an out-of-range value has been refused after
\* the encoder had been turned.
C3_Witness ==
    /\ pc = "sleep"
    /\ <<"queue", "Error">> \in events
    /\ rot_left = 0
    /\ cmd_left = 0
    /\ sent = <<>>

\* The place of the selection of f in its cycle: 0 is ALL; for phase and
\* harmonics (synth, a) is 2 * synth + 1 and (synth, b) is 2 * synth + 2;
\* for amplitude_a and amplitude_b synth is synth + 1.
SelIndex(f) ==
    IF selection_mode[f] = "all" THEN 0
    ELSE IF f \in {"phase", "harmonics"}
    THEN 2 * active_synth[f] + (IF active_channel[f] = "a" THEN 1 ELSE 2)
    ELSE active_synth[f] + 1

\* The number of states in the cycle of f.
CycleLength(f) ==
    IF f \in {"phase", "harmonics"} THEN 1 + 2 * num_synths ELSE 1 + num_synths

\* C4: every short press moves the selection of phase and harmonics one
\* place on in ALL, (0,a), (0,b), ..., (N-1,a), (N-1,b), ALL, and that of
\* amplitude_a and amplitude_b one place on in ALL, 0, 1, ..., N-1, ALL.
C4_PressCycle ==
    [][ \A f \in {"amplitude_a", "amplitude_b", "phase", "harmonics"} :
          (pc = "buttons" /\ <<f, "Press">> \in events')
          => SelIndex(f)' = (SelIndex(f) + 1) % CycleLength(f) ]_vars

\* Harmonics with three synths is back at ALL by a press made on (2,b),
\* the seventh place of its cycle.
C4_Witness ==
    /\ num_synths = 3
    /\ pc = "rotation"
    /\ <<"harmonics", "Press">> \in events
    /\ selection_mode["harmonics"] = "all"
    /\ active_synth["harmonics"] = 2
    /\ active_channel["harmonics"] = "b"

\* C5: the selection mode of frequency is "all" in every reachable state.
C5_FrequencyAlwaysAll == selection_mode["frequency"] = "all"

\* The frequency button has just been pressed and released.
C5_Witness ==
    /\ pc = "rotation"
    /\ <<"frequency", "Press">> \in events

\* The stored cell a hold in individual mode resets.
HoldKey(f) ==
    CASE f \in {"amplitude_a", "amplitude_b"} -> f
      [] f = "phase" -> IF active_channel[f] = "a" THEN "phase_a" ELSE "phase_b"
      [] OTHER -> IF active_channel[f] = "a" THEN "harmonics_a" ELSE "harmonics_b"

\* The value it is reset to: the per-synth default, the empty list for
\* harmonics.
HoldValue(f, i) ==
    IF f = "harmonics" THEN <<>> ELSE get_default_for_synth(i, HoldKey(f))

CurStore ==
    [amplitude_a |-> amplitude_a, amplitude_b |-> amplitude_b,
     frequency_a |-> frequency_a, frequency_b |-> frequency_b,
     phase_a |-> phase_a, phase_b |-> phase_b,
     harmonics_a |-> harmonics_a, harmonics_b |-> harmonics_b]

C7_RotationRefreshesLastChanged ==
    [][ \A f \in Funcs :
          ( /\ pc = "rotation"
            /\ <<f, "Rotate">> \in events'
            /\ selection_mode[f] = "individual" )
          => selection_time'[f] = now ]_vars

\* C8: the sweep reverts a function in individual mode to "all" exactly
\* when now - last_changed > timeout; otherwise the function stays in
\* individual mode on the same target.
C8_TimeoutExact ==
    [][ \A f \in Funcs :
          (pc = "timeouts" /\ selection_mode[f] = "individual")
          => IF now - selection_time[f] > selection_timeout
             THEN selection_mode'[f] = "all"
             ELSE /\ selection_mode'[f] = "individual"
                  /\ active_synth'[f] = active_synth[f]
                  /\ active_channel' = active_channel ]_vars

\* A sweep has reverted a function the first time its age exceeded the
\* timeout.
C8_Witness ==
    \E f \in Funcs :
       /\ pc = "buttons"
       /\ <<f, "Timeout">> \in events
       /\ selection_mode[f] = "all"
       /\ now - selection_time[f] = selection_timeout + 1

C10_ShortPressAlwaysPress ==
    [][ \A f \in Funcs :
          ( /\ pc = "buttons"
            /\ f \in present
            /\ button_level[f]
            /\ ~button_level'[f]
            /\ holds_in_press[f] = 0
            /\ now - press_start[f] < hold_threshold )
          => <<f, "Press">> \in events' ]_vars

\* C11: no press both resets and cycles.  A Press is never performed in the
\* call that performs a Hold for the same function, and the press that a
\* Press ends contained no Hold.
C11_HoldOrPress ==
    [][ \A f \in Funcs :
          (pc = "buttons" /\ <<f, "Press">> \in events')
          => /\ <<f, "Hold">> \notin events'
             /\ holds_in_press[f] = 0 ]_vars

\* A press that contained a Hold has ended and its release was handled.
C11_Witness ==
    /\ pc = "rotation"
    /\ \E f \in present :
          /\ <<f, "ReleaseAfterHold">> \in events
          /\ ~button_level[f]
          /\ selection_mode[f] = "all"

\* The value an individual-mode rotation of f by delta computes for the
\* selected target before it is clamped.
Candidate(f, delta) == CurStore[HoldKey(f)][active_synth[f]] + delta

CandidateOut(f, delta) ==
    Candidate(f, delta) < LowerBound(f) \/ Candidate(f, delta) > UpperBound(f)

\* The device command an individual-mode rotation of f writes for value v.
TargetCommand(f, v) ==
    <<active_synth[f],
      IF f = "phase" THEN "wp" ELSE "wa",
      CASE f = "amplitude_a" -> "a" [] f = "amplitude_b" -> "b" [] OTHER -> active_channel[f],
      v, 0, 0>>

\* C12, as stated: in individual mode a rotation whose candidate for the
\* selected target is out of bounds changes no stored value and writes no
\* device command.
C12_IndividualRejection ==
    [][ \A f \in {"amplitude_a", "amplitude_b", "phase"} :
          ( /\ pc = "rotation"
            /\ <<f, "Rotate">> \in events'
            /\ selection_mode[f] = "individual"
            /\ CandidateOut(f, last_positions'[f] - last_positions[f]) )
          => (Store' = Store /\ sent' = <<>>) ]_vars

\* C12, amended: in individual mode a rotation whose candidate for the
\* selected target is out of bounds is not rejected; the candidate is
\* clamped to the bound it crossed, the clamped value is stored for the
\* selected target and written to its device, and nothing else changes.
C12_IndividualClamping ==
    [][ \A f \in {"amplitude_a", "amplitude_b", "phase"} :
          ( /\ pc = "rotation"
            /\ <<f, "Rotate">> \in events'
            /\ selection_mode[f] = "individual"
            /\ CandidateOut(f, last_positions'[f] - last_positions[f]) )
          => LET c == Candidate(f, last_positions'[f] - last_positions[f])
                 v == IF c > UpperBound(f) THEN UpperBound(f) ELSE LowerBound(f)
             IN /\ CurStore' = [CurStore EXCEPT ![HoldKey(f)][active_synth[f]] = v]
                /\ sent' = <<TargetCommand(f, v)>> ]_vars

\* amplitude_a in INDIVIDUAL(synth 0) was turned by +5 from 98 %: synth 0
\* now stores 100 % and one command carrying 100 was written.
C12_Witness ==
    /\ pc = "queue"
    /\ <<"amplitude_a", "Rotate">> \in events
    /\ selection_mode["amplitude_a"] = "individual"
    /\ active_synth["amplitude_a"] = 0
    /\ amplitude_a[0] = AMP_MAX
    /\ sent = << <<0, "wa", "a", AMP_MAX, 0, 0>> >>

StoreKeys ==
    {"amplitude_a", "amplitude_b", "frequency_a", "frequency_b",
     "phase_a", "phase_b", "harmonics_a", "harmonics_b"}

\* C13: in individual mode a rotation of amplitude_a, amplitude_b or phase
\* whose candidate is in bounds adds delta to the selected target's stored
\* value, writes that one value to that synth's device and changes nothing
\* else; a rotation of harmonics in individual mode changes nothing but the
\* selected synth's list of the selected channel.
C13_IndividualFrame ==
    [][ /\ \A f \in {"amplitude_a", "amplitude_b", "phase"} :
             ( /\ pc = "rotation"
               /\ <<f, "Rotate">> \in events'
               /\ selection_mode[f] = "individual"
               /\ ~CandidateOut(f, last_positions'[f] - last_positions[f]) )
             => LET c == Candidate(f, last_positions'[f] - last_positions[f])
                IN /\ CurStore' = [CurStore EXCEPT ![HoldKey(f)][active_synth[f]] = c]
                   /\ sent' = <<TargetCommand(f, c)>>
        /\ ( /\ pc = "rotation"
             /\ <<"harmonics", "Rotate">> \in events'
             /\ selection_mode["harmonics"] = "individual" )
           => \A key \in StoreKeys, i \in Synths :
                 (key # HoldKey("harmonics") \/ i # active_synth["harmonics"])
                 => CurStore'[key][i] = CurStore[key][i] ]_vars

\* phase in INDIVIDUAL(synth 1, channel b) was turned down by one step from
\* the default 120: synth 1 channel b went down by the step, channel a of
\* synth 1 and both channels of synth 0 are where they were.
C13_Witness ==
    /\ pc = "queue"
    /\ <<"phase", "Rotate">> \in events
    /\ selection_mode["phase"] = "individual"
    /\ active_synth["phase"] = 1
    /\ active_channel["phase"] = "b"
    /\ phase_b[1] = HardDefault(1).phase_b - PosStep
    /\ phase_a[1] = HardDefault(1).phase_a
    /\ phase_a[0] = EdgeHigh.phase_a
    /\ phase_b[0] = EdgeHigh.phase_b
    /\ Len(sent) = 1

\* Every synth's phase on both channels stays in bounds when delta is added.
PhaseCandidatesIn(delta) ==
    \A i \in Synths :
       /\ PHASE_MIN <= phase_a[i] + delta /\ phase_a[i] + delta <= PHASE_MAX
       /\ PHASE_MIN <= phase_b[i] + delta /\ phase_b[i] + delta <= PHASE_MAX

\* C14, as stated: in "all" mode a phase rotation by delta that keeps every
\* phase in bounds adds delta to phase_a and to phase_b of every synth.
C14_PhaseAllBothChannels ==
    [][ ( /\ pc = "rotation"
          /\ <<"phase", "Rotate">> \in events'
          /\ selection_mode["phase"] = "all"
          /\ PhaseCandidatesIn(last_positions'["phase"] - last_positions["phase"]) )
        => LET d == last_positions'["phase"] - last_positions["phase"]
           IN /\ phase_a' = [i \in Synths |-> phase_a[i] + d]
              /\ phase_b' = [i \in Synths |-> phase_b[i] + d] ]_vars

\* C14, amended: in "all" mode the scope of a phase rotation is channel b
\* of every synth.  A rotation by delta that keeps every phase_b in bounds
\* adds delta to phase_b of every synth, writes one phase command for
\* channel b to every synth in synth order, and leaves every phase_a and
\* every other stored value as it was.
C14_PhaseAllChannelB ==
    [][ ( /\ pc = "rotation"
          /\ <<"phase", "Rotate">> \in events'
          /\ selection_mode["phase"] = "all"
          /\ ~SomeCandidateOut("phase", last_positions'["phase"] - last_positions["phase"]) )
        => LET d == last_positions'["phase"] - last_positions["phase"]
           IN /\ CurStore' = [CurStore EXCEPT !.phase_b = [i \in Synths |-> phase_b[i] + d]]
              /\ sent' = [k \in 1..num_synths |-> <<k - 1, "wp", "b", phase_b[k - 1] + d, 0, 0>>]
       ]_vars

\* With two synths, phase in "all" mode was turned down by one step:
\* channel b of both synths moved, channel a of both did not.
C14_Witness ==
    /\ pc = "queue"
    /\ num_synths = 2
    /\ <<"phase", "Rotate">> \in events
    /\ selection_mode["phase"] = "all"
    /\ phase_b[0] = EdgeHigh.phase_b - PosStep
    /\ phase_b[1] = HardDefault(1).phase_b - PosStep
    /\ phase_a[0] = EdgeHigh.phase_a
    /\ phase_a[1] = HardDefault(1).phase_a
    /\ Len(sent) = 2

\* The stored parameter a device command line sets.
CommandKey(c) ==
    CASE c[2] = "wa" -> IF c[3] = "a" THEN "amplitude_a" ELSE "amplitude_b"
      [] c[2] = "wf" -> IF c[3] = "a" THEN "frequency_a" ELSE "frequency_b"
      [] OTHER -> IF c[3] = "a" THEN "phase_a" ELSE "phase_b"

\* C15, as stated: a rotation writes an amplitude, frequency or phase
\* command to a device only for a target whose stored value changes.
C15_NoOpWritesSkipped ==
    [][ pc = "rotation"
        => \A k \in 1..Len(sent') :
              sent'[k][2] \in {"wa", "wf", "wp"}
              => CurStore'[CommandKey(sent'[k])][sent'[k][1]]
                    # CurStore[CommandKey(sent'[k])][sent'[k][1]] ]_vars

\* C15, amended: an accepted rotation writes a device command for every
\* target in its scope, whether or not the value changes.  A rotation of
\* frequency writes, synth by synth, channel a then channel b, the clamped
\* value of every synth; a rotation of amplitude_a, amplitude_b or phase in
\* individual mode writes the clamped value of the selected target.
C15_EveryTargetWritten ==
    [][ /\ ( pc = "rotation" /\ <<"frequency", "Rotate">> \in events' )
           => LET d == last_positions'["frequency"] - last_positions["frequency"]
              IN sent' = [k \in 1..(2 * num_synths) |->
                            IF k % 2 = 1
                            THEN <<(k - 1) \div 2, "wf", "a",
                                   Clamp(FREQ_MIN, FREQ_ENC_MAX, frequency_a[(k - 1) \div 2] + d), 0, 0>>
                            ELSE <<(k - 1) \div 2, "wf", "b",
                                   Clamp(FREQ_MIN, FREQ_ENC_MAX, frequency_b[(k - 1) \div 2] + d), 0, 0>>]
        /\ \A f \in {"amplitude_a", "amplitude_b", "phase"} :
             ( /\ pc = "rotation"
               /\ <<f, "Rotate">> \in events'
               /\ selection_mode[f] = "individual" )
             => LET c == Candidate(f, last_positions'[f] - last_positions[f])
                IN sent' = <<TargetCommand(f, Clamp(LowerBound(f), UpperBound(f), c))>> ]_vars

\* With three synths, frequency was turned down by one step: channel b of
\* synth 2 was on the lower bound and stays there, and the command for it
\* was written all the same.
C15_Witness ==
    /\ pc = "queue"
    /\ num_synths = 3
    /\ <<"frequency", "Rotate">> \in events
    /\ last_positions["frequency"] < 0
    /\ frequency_b[2] = FREQ_MIN
    /\ frequency_a[2] = FREQ_MIN
    /\ Len(sent) = 6
    /\ sent[6] = <<2, "wf", "b", FREQ_MIN, 0, 0>>

\* The stored parameter an "all"-mode rotation of f drives.
BulkKey(f) == IF f = "phase" THEN "phase_b" ELSE f

\* C16: an "all"-mode rotation of amplitude_a, amplitude_b or phase by
\* delta either adds delta to the stored value of every synth or changes the
\* stored value of none, also when the write to some synth's device fails;
\* no other stored value changes.
C16_BulkAllOrNothing ==
    [][ \A f \in {"amplitude_a", "amplitude_b", "phase"} :
          ( /\ pc = "rotation"
            /\ <<f, "Rotate">> \in events'
            /\ selection_mode[f] = "all" )
          => LET d == last_positions'[f] - last_positions[f]
             IN \/ CurStore' = CurStore
                \/ CurStore' = [CurStore EXCEPT ![BulkKey(f)] =
                                    [i \in Synths |-> CurStore[BulkKey(f)][i] + d]] ]_vars

\* With two synths, amplitude_a in "all" mode was turned down by one step
\* while the write to one of the two devices failed: one command was
\* written, and both synths store the new value.
C16_Witness ==
    /\ pc = "queue"
    /\ num_synths = 2
    /\ <<"amplitude_a", "Rotate">> \in events
    /\ <<"device", "Error">> \in events
    /\ selection_mode["amplitude_a"] = "all"
    /\ Len(sent) = 1
    /\ amplitude_a[0] = EdgeHigh.amplitude_a - PosStep
    /\ amplitude_a[1] = HardDefault(1).amplitude_a - PosStep

\* The stored parameter a queued setter command addresses.
SetterKey(cmd) ==
    CASE cmd.command = "set_amplitude" ->
            IF cmd.channel = "a" THEN "amplitude_a" ELSE "amplitude_b"
      [] cmd.command = "set_frequency" ->
            IF cmd.channel = "a" THEN "frequency_a" ELSE "frequency_b"
      [] OTHER -> IF cmd.channel = "a" THEN "phase_a" ELSE "phase_b"

\* The value of a queued setter command lies in the range the device
\* setter accepts.
ValueAccepted(cmd) ==
    CASE cmd.command = "set_amplitude" -> 0 <= cmd.value /\ cmd.value <= 100
      [] cmd.command = "set_frequency" -> 200 <= cmd.value /\ cmd.value <= 80000
      [] OTHER -> (0 - 360) <= cmd.value /\ cmd.value <= 360

\* A queued command that names an enumerated synth, one of the three
\* setters and a value in range.
WellFormed(cmd) ==
    /\ Addressed(cmd)
    /\ cmd.command \in {"set_amplitude", "set_frequency", "set_phase"}
    /\ ValueAccepted(cmd)

\* The device line of a well-formed command whose channel the device
\* setter accepts: a or b in either case, written in lower case.
SetterLine(cmd) ==
    <<cmd.synth_id,
      CASE cmd.command = "set_amplitude" -> "wa"
        [] cmd.command = "set_frequency" -> "wf"
        [] OTHER -> "wp",
      Lower(cmd.channel), cmd.value, 0, 0>>

\* The position in the queue of the last well-formed command that sets
\* stored parameter key of synth i, 0 when there is none.
LastSetter(queue, key, i) ==
    LET hits == {k \in 1..Len(queue) :
                    /\ WellFormed(queue[k])
                    /\ queue[k].channel \in {"a", "b"}
                    /\ queue[k].synth_id = i
                    /\ SetterKey(queue[k]) = key}
    IN IF hits = {} THEN 0 ELSE CHOOSE k \in hits : \A j \in hits : j <= k

\* C17: one drain applies the queued commands in the order they were
\* enqueued.  Every stored parameter ends with the value of the last
\* well-formed command in the queue that sets it (and is unchanged when
\* there is none), and the lines written to the devices are those of the
\* commands the device setters accept, in the order of the commands, less
\* the lines for the synths whose serial port fails during the drain.
C17_QueueFifo ==
    [][ pc = "queue" /\ pc' = "sleep"
        => /\ \A key \in StoreKeys, i \in Synths :
                 CurStore'[key][i] =
                    IF LastSetter(command_queue, key, i) = 0 THEN CurStore[key][i]
                    ELSE command_queue[LastSetter(command_queue, key, i)].value
           /\ LET passed == SelectSeq(command_queue,
                                LAMBDA c : WellFormed(c) /\ c.channel \in {"a", "b", "A", "B"})
                  lines == [k \in 1..Len(passed) |-> SetterLine(passed[k])]
              IN \E W \in SUBSET Synths : sent' = SelectSeq(lines, LAMBDA l : l[1] \in W) ]_vars

\* Two commands for amplitude_a of synth 0 were drained in one call, 50 %
\* enqueued first and 100 % second: the device got them in that order and
\* the store holds 100 %.
C17_Witness ==
    /\ pc = "sleep"
    /\ sent = << <<0, "wa", "a", 50, 0, 0>>, <<0, "wa", "a", 100, 0, 0>> >>
    /\ amplitude_a[0] = 100

\* The value of a queued setter command lies in the range the encoder path
\* keeps that parameter in.
InEncoderRange(cmd) ==
    CASE cmd.command = "set_amplitude" -> AMP_MIN <= cmd.value /\ cmd.value <= AMP_MAX
      [] cmd.command = "set_frequency" -> FREQ_MIN <= cmd.value /\ cmd.value <= FREQ_ENC_MAX
      [] OTHER -> PHASE_MIN <= cmd.value /\ cmd.value <= PHASE_MAX

\* C18, as stated: an external set_amplitude, set_frequency or set_phase
\* command for an enumerated synth and channel a or b is accepted (stored,
\* not rejected) exactly when its value lies in the range the encoder path
\* enforces for that parameter.
C18_SameBoundsOnBothPaths ==
    [][ ( /\ pc = "queue" /\ pc' = "sleep"
          /\ Len(command_queue) = 1
          /\ Addressed(command_queue[1])
          /\ command_queue[1].command \in {"set_amplitude", "set_frequency", "set_phase"}
          /\ command_queue[1].channel \in {"a", "b"} )
        => ( InEncoderRange(command_queue[1])
             <=> /\ <<"queue", "Error">> \notin events'
                 /\ CurStore'[SetterKey(command_queue[1])][command_queue[1].synth_id]
                       = command_queue[1].value ) ]_vars

\* C19, as stated: an external set_amplitude, set_frequency or set_phase
\* command for an enumerated synth whose value is outside the range the
\* device setter accepts, or whose channel is neither 'a' nor 'b', changes
\* no stored value and writes nothing to a device.
C19_ExternalRejection ==
    [][ ( /\ pc = "queue" /\ pc' = "sleep"
          /\ Len(command_queue) = 1
          /\ Addressed(command_queue[1])
          /\ command_queue[1].command \in {"set_amplitude", "set_frequency", "set_phase"}
          /\ ( ~ValueAccepted(command_queue[1])
               \/ command_queue[1].channel \notin {"a", "b"} ) )
        => (CurStore' = CurStore /\ sent' = <<>>) ]_vars

\* A queued command whose processing raises: a setter command for an
\* enumerated synth with a value or a channel the device setter refuses,
\* or a set_harmonics command, for which SynthInterface has no method.
Fails(cmd) ==
    /\ Addressed(cmd)
    /\ \/ /\ cmd.command \in {"set_amplitude", "set_frequency", "set_phase"}
          /\ (~ValueAccepted(cmd) \/ cmd.channel \notin {"a", "b", "A", "B"})
       \/ cmd.command = "set_harmonics"

\* C20: a command that fails does not stop the drain.  A well-formed
\* command that stands behind a failing one in the queue, and is the last
\* to set its parameter, has its value stored by the same drain; the
\* failure is logged and the control loop keeps running.
C20_DrainContinues ==
    [][ pc = "queue" /\ pc' = "sleep"
        => \A k \in 2..Len(command_queue) :
              ( /\ \E j \in 1..(k - 1) : Fails(command_queue[j])
                /\ WellFormed(command_queue[k])
                /\ command_queue[k].channel \in {"a", "b"}
                /\ LastSetter(command_queue, SetterKey(command_queue[k]),
                              command_queue[k].synth_id) = k )
              => /\ CurStore'[SetterKey(command_queue[k])][command_queue[k].synth_id]
                       = command_queue[k].value
                 /\ <<"queue", "Error">> \in events'
                 /\ running' ]_vars

\* One drain took a set_harmonics command, which fails, and behind it a
\* set_phase command for channel b of synth 0: the phase is stored and was
\* written to the device, and the loop runs on.
C20_Witness ==
    /\ pc = "sleep"
    /\ running
    /\ Len(drained) = 2
    /\ drained[1].command = "set_harmonics"
    /\ drained[2] = [synth_id |-> 0, command |-> "set_phase", channel |-> "b", value |-> 100]
    /\ <<"queue", "Error">> \in events
    /\ phase_b[0] = 100
    /\ sent = << <<0, "wp", "b", 100, 0, 0>> >>

\* ---------------------------------------------------------------- harmonics
\* A slot that is logically deleted: amplitude 0 or order below 3.
DeadSlot(h) == h.amplitude = 0 \/ h.order < 3

\* The list of channel ch ("a" or "b") of synth i in the record st.
HarmonicList(st, i, ch) == IF ch = "a" THEN st.harmonics_a[i] ELSE st.harmonics_b[i]

\* The (synth, channel) lists a rotation of harmonics works on.
HarmonicTargets ==
    IF selection_mode["harmonics"] = "all"
    THEN Synths \X {"a", "b"}
    ELSE {<<active_synth["harmonics"], active_channel["harmonics"]>>}

\* The drain takes exactly one command, a set_harmonics command of the
\* WebSocket handler for an enumerated synth.
DrainsOneHarmonic ==
    /\ pc = "queue" /\ pc' = "sleep"
    /\ Len(command_queue) = 1
    /\ command_queue[1].command = "set_harmonics"
    /\ "id" \in DOMAIN command_queue[1]
    /\ Addressed(command_queue[1])

\* C21, as stated: after a harmonic update no slot with amplitude 0 or
\* order below 3 remains in the updated list.  After a rotation of harmonics
\* every list it worked on is free of such slots; after an external
\* set_harmonics command the list of its channel is free of them, holds no
\* slot of the command's id when the command carries amplitude 0 or an
\* order below 3, and holds the command's slot otherwise.
C21_DeadSlotsRemoved ==
    [][ /\ ( pc = "rotation" /\ <<"harmonics", "Rotate">> \in events' )
            => \A t \in HarmonicTargets :
                  LET hl == HarmonicList(CurStore', t[1], t[2])
                  IN \A k \in 1..Len(hl) : ~DeadSlot(hl[k])
        /\ DrainsOneHarmonic
            => LET cmd == command_queue[1]
                   hl == HarmonicList(CurStore', cmd.synth_id, cmd.channel)
               IN /\ \A k \in 1..Len(hl) : ~DeadSlot(hl[k])
                  /\ (cmd.amplitude = 0 \/ cmd.order < 3)
                        => \A k \in 1..Len(hl) : hl[k].id # cmd.id
                  /\ ~(cmd.amplitude = 0 \/ cmd.order < 3)
                        => \E k \in 1..Len(hl) :
                              /\ hl[k].id = cmd.id /\ hl[k].order = cmd.order
                              /\ hl[k].amplitude = cmd.amplitude ]_vars

\* C22, as stated: in every reachable state every slot of every channel's
\* harmonic list carries an id, and no two slots of one list carry the same
\* id.
C22_HarmonicIdsUnique ==
    \A i \in Synths, ch \in {"a", "b"} :
       LET hl == HarmonicList(CurStore, i, ch)
       IN /\ \A k \in 1..Len(hl) : hl[k].id # NoId
          /\ \A k1, k2 \in 1..Len(hl) : hl[k1].id = hl[k2].id => k1 = k2

\* C23, as stated: when an external set_harmonics command changes the order
\* of an id that is in the list, the device is sent the command zeroing the
\* slot at the old order, afterwards the command writing the new order, and
\* no write of the new order before the zeroing.
C23_ZeroOldOrderFirst ==
    [][ DrainsOneHarmonic
        => LET cmd == command_queue[1]
               hl == HarmonicList(CurStore, cmd.synth_id, cmd.channel)
               new_order == IF cmd.order < 3 THEN 3 ELSE cmd.order
           IN \A k \in 1..Len(hl) :
                 (hl[k].id = cmd.id /\ hl[k].order # cmd.order)
                 => \E p \in 1..Len(sent') :
                       /\ sent'[p] = <<cmd.synth_id, "wh", cmd.channel, 0, hl[k].order, 0>>
                       /\ \E q \in (p + 1)..Len(sent') :
                             /\ sent'[q][1] = cmd.synth_id /\ sent'[q][2] = "wh"
                             /\ sent'[q][3] = cmd.channel /\ sent'[q][5] = new_order
                       /\ \A q \in 1..(p - 1) :
                             ~(sent'[q][2] = "wh" /\ sent'[q][5] = new_order) ]_vars

\* C24, as stated: no failure in the encoder-driven path terminates the
\* control loop; also after a Hold reset whose default value the device
\* setter refuses, the loop is still running.
C24_LoopNeverTerminates == running

\* ---------------------------------------------------------------- persistence
\* The state file is missing or structurally invalid: not parseable, or
\* lacking num_synths or synths.
InvalidFile(f) == ~f.exists \/ ~f.parses \/ f.keys # {"num_synths", "synths"}

\* C25, as stated: constructing the state manager on a missing or
\* structurally invalid state file completes without error and yields
\* synths equal to the defaults.
C25_ConstructionTolerant ==
    [][ ( /\ state_manager.status = "none"
          /\ state_manager'.status # "none"
          /\ InvalidFile(state_file) )
        => /\ state_manager'.status = "constructed"
           /\ state_manager'.synths_is_list
           /\ state_manager'.synths = state_manager'.defaults.synths ]_vars

\* Every record of the store holds a list under both harmonics keys.
HoldsLists(sm) ==
    /\ sm.synths_is_list
    /\ \A k \in 1..Len(sm.synths) :
          \A key \in HarmonicKeys :
             key \in DOMAIN sm.synths[k] /\ sm.synths[k][key].is_list

\* A step that is save_state() followed by load_state().
SaveLoadStep == state_manager.status = "constructed" /\ state_manager'.op = "save_load"

ArrayKeys ==
    {"amplitude_a", "amplitude_b", "frequency_a", "frequency_b",
     "phase_a", "phase_b", "harmonics_a", "harmonics_b"}

\* C27, as stated: after system initialization for N connected synths the
\* persisted state has been used only if it holds N records under
\* num_synths = N, and every parameter array has exactly N entries.
C27_ArraysHaveNEntries ==
    system.source # "none"
    => /\ \A key \in ArrayKeys : Len(system[key]) = num_synths
       /\ system.source = "state"
             => state_file.num_synths = num_synths /\ Len(state_file.synths) = num_synths

\* ---------------------------------------------------------------- web server
\* C28, as stated: the broadcaster emits a snapshot only on an iteration
\* where nothing was emitted before, or the store differs by value from the
\* snapshot last emitted, or the selection mode differs by value from the
\* one last emitted, an unset (None) selection mode included.
C28_EmitsOnlyOnChange ==
    [][ emitter'.emitted > emitter.emitted
        => \/ emitter.last_state_is_none
           \/ SynthsSnapshot # emitter.last_state
           \/ state_manager.selection_mode_is_none # emitter.last_selection_mode_is_none ]_vars

\* C29, as stated: the parameter store is written from the control loop
\* only; every step that changes state_manager.synths or a record in it is
\* a step of the control loop, which moves the loop on.
C29_SingleWriter ==
    [][ SynthsSnapshot' # SynthsSnapshot => pc' # pc ]_vars

\* ------------------------------------------------------------ selection index
\* C30: in every reachable state the selected synth index of every function
\* is one of the enumerated synths, 0 .. num_synths - 1, whatever presses,
\* holds, rotations and timeout sweeps came before, with one synth as well.
C30_SelectionIndexInRange ==
    \A f \in Funcs : active_synth[f] \in 0..(num_synths - 1)

\* With a single synth: amplitude_a was short-pressed while it had synth 0
\* selected, which is the last synth, and went back to "all" with the index
\* left on it.
C30_Witness ==
    /\ num_synths = 1
    /\ <<"amplitude_a", "Press">> \in events
    /\ selection_mode["amplitude_a"] = "all"
    /\ selection_time["amplitude_a"] = now
    /\ now > 0
    /\ active_synth["amplitude_a"] = 0

\* ------------------------------------------------------------ hold in ALL mode
\* The stored arrays in the scope of a hold on f in ALL mode.
HoldScope(f) ==
    CASE f \in {"amplitude_a", "amplitude_b"} -> {f}
      [] f = "phase" -> {"phase_a", "phase_b"}
      [] OTHER -> {"frequency_a", "frequency_b"}

\* C31, as stated: after a hold on amplitude_a, amplitude_b, phase or
\* frequency in ALL mode, every synth holds its per-synth default in every
\* stored array of the function's scope (one amplitude array, both phase
\* arrays, both frequency arrays).
C31_HoldAllResets ==
    [][ \A f \in {"amplitude_a", "amplitude_b", "phase", "frequency"} :
          ( /\ pc = "buttons"
            /\ <<f, "Hold">> \in events'
            /\ selection_mode[f] = "all" )
          => \A key \in HoldScope(f) : \A i \in Synths :
                 CurStore'[key][i] = get_default_for_synth(i, key) ]_vars

\* ------------------------------------------------------------- absent encoders
\* The function a device command is written for.
FunctionOfCommand(c) ==
    CASE c[2] = "wa" -> IF c[3] = "a" THEN "amplitude_a" ELSE "amplitude_b"
      [] c[2] = "wf" -> "frequency"
      [] c[2] = "wp" -> "phase"
      [] OTHER -> "harmonics"

\* A step of one of the three encoder handlers of the control loop.
HandlerStep == pc \in {"timeouts", "buttons", "rotation"} /\ pc' # pc

\* C32: a function whose encoder is absent generates no events: each
\* handler call skips it without raising (the loop goes on unless a fitted
\* function acted in the call), records nothing for it, and
\* leaves its stored parameters, its selection mode and target, its button
\* and position bookkeeping and the devices (no command of its kind is
\* written) as they were.
C32_AbsentEncoderSilent ==
    [][ HandlerStep
        => \A f \in Funcs \ present :
              /\ running' \/ \E e \in events' : e[1] \in present
              /\ \A e \in events' : e[1] # f
              /\ StoreOf(f)' = StoreOf(f)
              /\ selection_mode'[f] = selection_mode[f]
              /\ selection_time'[f] = selection_time[f]
              /\ active_synth'[f] = active_synth[f]
              /\ f \in DOMAIN active_channel => active_channel'[f] = active_channel[f]
              /\ button_pressed'[f] = button_pressed[f]
              /\ was_held'[f] = was_held[f]
              /\ block_release'[f] = block_release[f]
              /\ last_positions'[f] = last_positions[f]
              /\ \A k \in 1..Len(sent') : FunctionOfCommand(sent'[k]) # f ]_vars

\* The rotation handler has just served the phase encoder, the only one
\* fitted, and written its commands; it passed over amplitude_a.
C32_Witness ==
    /\ pc = "queue"
    /\ present = {"phase"}
    /\ <<"phase", "Rotate">> \in events
    /\ Len(sent) > 0
    /\ running

\* ------------------------------------------------------------ equal frequencies
\* Every synth and channel holds the same frequency.
AllFrequenciesEqual ==
    \A i \in Synths : \A j \in Synths :
        /\ frequency_a[i] = frequency_a[j]
        /\ frequency_b[i] = frequency_b[j]
        /\ frequency_a[i] = frequency_b[j]

\* C33, as stated: from a state in which all frequency_a and frequency_b
\* values are equal, no operation leads to a state in which one synth or
\* channel has a frequency different from the others.
C33_FrequenciesStayEqual ==
    [][ AllFrequenciesEqual => AllFrequenciesEqual' ]_vars

\* C33, amended: the rotation handler keeps equal frequencies equal (the
\* frequency encoder moves both channels of every synth by the same delta,
\* with the same clamp); an external set_frequency command changes the one
\* synth and channel it names.
C33_RotationKeepsEqual ==
    [][ (pc = "rotation" /\ AllFrequenciesEqual) => AllFrequenciesEqual' ]_vars

\* Two synths or more held the same frequency on every channel and the
\* frequency encoder was turned: they moved together.
C33_Witness ==
    /\ num_synths >= 2
    /\ pc = "queue"
    /\ <<"frequency", "Save">> \in events
    /\ AllFrequenciesEqual
    /\ frequency_a[0] # get_default_for_synth(0, "frequency_a")

\* ------------------------------------------------- store and device after a drain
\* The k-th line the drain wrote is the last one it wrote for its synth and
\* channel.
LastLineForTarget(lines, k) ==
    \A k2 \in (k + 1)..Len(lines) :
        lines[k2][1] # lines[k][1] \/ CommandKey(lines[k2]) # CommandKey(lines[k])

\* C34, as stated: when the drain of the queue has written a set_amplitude,
\* set_frequency or set_phase line to a device, the store field of that
\* synth and channel holds the value of the line (of the last such line,
\* when the drain wrote several for one target), whatever spelling of the
\* channel the command carried.
C34_StoreFollowsDevice ==
    [][ (pc = "queue" /\ pc' = "sleep")
        => \A k \in 1..Len(sent') :
              (sent'[k][2] \in {"wa", "wf", "wp"} /\ LastLineForTarget(sent', k))
              => CurStore'[CommandKey(sent'[k])][sent'[k][1]] = sent'[k][4] ]_vars

\* --------------------------------------------------- what reaches the serial port
\* A command line whose values are inside the ranges of the device.
LineInRange(c) ==
    /\ c[3] \in {"a", "b"}
    /\ CASE c[2] = "wa" -> AMP_MIN <= c[4] /\ c[4] <= AMP_MAX
         [] c[2] = "wp" -> PHASE_MIN <= c[4] /\ c[4] <= PHASE_MAX
         [] c[2] = "wf" -> FREQ_MIN <= c[4] /\ c[4] <= FREQ_DEV_MAX
         [] c[2] = "wh" -> /\ c[5] >= 3 /\ c[5] % 2 = 1
                           /\ AMP_MIN <= c[4] /\ c[4] <= AMP_MAX
                           /\ PHASE_MIN <= c[6] /\ c[6] <= PHASE_MAX
         [] OTHER -> TRUE

\* Arguments tried on the setters: the ends of each range and their
\* neighbours outside, channel spellings, orders.
ProbeValues == {-361, -360, -1, 0, 100, 101, 199, 200, 360, 361, 80000, 80001}

ProbeChannels == {"a", "B", "x"}

ProbeOrders == {1, 2, 3, 4, 5}

ProbePercents == {-1, 0, 100, 101}

ProbePhases == {-361, 0, 360, 361}

\* The outcome the contract allows for one setter call on state s0 that
\* would write line: an argument out of range raises with nothing sent; in
\* range, the line is appended when the port of synth i accepts writes,
\* and otherwise nothing is sent, nothing raised and the failure reported.
SetterOutcome(s0, s1, line) ==
    IF ~LineInRange([line EXCEPT ![3] = Lower(line[3])]) \/ ~ChannelOk(line[3])
    THEN s1.raised /\ s1.sent = s0.sent
    ELSE /\ ~s1.raised
         /\ IF line[1] \in s0.writable
            THEN s1.sent = Append(s0.sent, [line EXCEPT ![3] = Lower(line[3])])
            ELSE s1.sent = s0.sent /\ <<"device", "Error">> \in s1.events

\* C35: no line outside the device ranges was written to a serial port,
\* and at the end of each tick every setter called on the state, with any
\* of the probe arguments, on a connected or an unconnected interface,
\* either raises before anything is sent (argument out of range), or sends
\* exactly its line (connected), or sends nothing and reports the failure
\* (unconnected).
C35_SettersGuardThePort ==
    /\ \A k \in 1..Len(sent) : LineInRange(sent[k])
    /\ pc = "sleep" =>
          \A writable \in {Synths, {}} : \A i \in Synths : \A channel \in ProbeChannels :
             LET s0 == CurWith(writable)
             IN /\ \A v \in ProbeValues :
                     /\ SetterOutcome(s0, set_amplitude(s0, i, channel, v), <<i, "wa", channel, v, 0, 0>>)
                     /\ SetterOutcome(s0, set_frequency(s0, i, channel, v), <<i, "wf", channel, v, 0, 0>>)
                     /\ SetterOutcome(s0, set_phase(s0, i, channel, v), <<i, "wp", channel, v, 0, 0>>)
                /\ \A order \in ProbeOrders : \A percent \in ProbePercents : \A phase \in ProbePhases :
                     SetterOutcome(s0, add_harmonic(s0, i, channel, order, percent, phase),
                                   <<i, "wh", channel, percent, order, phase>>)

\* A drain of two commands: one was refused by its setter (out of range),
\* the other was in range on an interface that is not connected; nothing
\* was sent.
C35_Witness ==
    /\ pc = "sleep"
    /\ Len(drained) = 2
    /\ <<"queue", "Error">> \in events
    /\ <<"device", "Error">> \in events
    /\ sent = <<>>

\* ------------------------------------------------------ rotations consumed once
\* C36: after handle_encoder_rotation the last observed position of every
\* fitted encoder is the position the call read, whether the rotation was
\* applied, clamped or rejected; and the delta a frequency rotation applies
\* is the signed difference between the position read and the last
\* observed one.
C36_RotationConsumedOnce ==
    [][ (pc = "rotation" /\ pc' = "queue")
        => /\ \A f \in present : last_positions'[f] = encoder_position'[f]
           /\ ("frequency" \in present
                  /\ encoder_position'["frequency"] # last_positions["frequency"])
              => \A i \in Synths :
                    frequency_a'[i] =
                        Clamp(FREQ_MIN, FREQ_ENC_MAX,
                              frequency_a[i] + (encoder_position'["frequency"]
                                                - last_positions["frequency"])) ]_vars

\* The amplitude_a encoder went up one step in ALL mode with synth 0 at
\* 98 %: the rotation was rejected, its position was recorded, and a later
\* call that read the same position did nothing.
C36_Witness ==
    /\ pc = "queue"
    /\ present = {"amplitude_a"}
    /\ rot_left = 0
    /\ events = {}
    /\ encoder_position["amplitude_a"] = PosStep
    /\ last_positions["amplitude_a"] = PosStep
    /\ selection_mode["amplitude_a"] = "all"
    /\ amplitude_a[0] = 98

C38_LeavesAllAtFirstTarget ==
    [][ \A f \in Funcs :
          (selection_mode[f] = "all" /\ selection_mode'[f] = "individual")
          => /\ pc = "buttons"
             /\ <<f, "Press">> \in events'
             /\ active_synth'[f] = 0
             /\ f \in DOMAIN active_channel => active_channel'[f] = "a" ]_vars

\* Phase has just been pressed out of "all" mode, to which it had
\* returned with another target left selected: it is on synth 0, channel a.
C38_Witness ==
    /\ pc = "rotation"
    /\ <<"phase", "Press">> \in events
    /\ left_stale["phase"]
    /\ selection_mode["phase"] = "individual"
    /\ selection_time["phase"] = now
    /\ active_synth["phase"] = 0
    /\ active_channel["phase"] = "a"

\* ------------------------------------------------------------ draining the queue
\* A command the dispatcher has a branch for: it names an enumerated synth
\* and one of the four handled commands.
Dispatched(cmd) ==
    /\ Addressed(cmd)
    /\ cmd.command \in {"set_amplitude", "set_frequency", "set_phase", "set_harmonics"}

RECURSIVE ApplyInOrder(_, _)
\* The commands of queue applied one after the other.
ApplyInOrder(s, queue) ==
    IF queue = <<>> THEN s
    ELSE ApplyInOrder(ProcessCommand(s, Head(queue)), Tail(queue))

C40_DeltaAccountsForMovement ==
    [][ encoder'.reads = encoder.reads + 1
        => /\ encoder'.total = encoder.total + encoder'.last_delta
           /\ encoder'.total = encoder'.position - encoder'.start
           /\ encoder'.position = encoder.position
           /\ (encoder.reads > 0 /\ ~encoder.moved) => encoder'.last_delta = 0 ]_vars

\* Three reads were made, the knob having been turned before the first
\* two and not before the third: the third returned 0 and the sum of the
\* three is the distance from the position at construction.
C40_Witness ==
    /\ encoder.constructed
    /\ encoder.reads = 3
    /\ ~encoder.moved
    /\ encoder.last_delta = 0
    /\ encoder.total = 3
    /\ encoder.position = encoder.start + 3
====
